---- MODULE Spec2Model ----
(***************************************************************************)
(* A model of the process-pipeline supervisor of with.namespace            *)
(* (src/pipe.hpp, src/pipe.cpp): daemon_pipe::exec with its SignalBlocker,  *)
(* LockFile, FileMap and ProcHarvester, the children it forks and the       *)
(* signals it receives.                                                     *)
(*                                                                          *)
(* Environment.  The supervisor is single threaded; what runs beside it are *)
(* its children, the senders of signals and one other supervisor competing  *)
(* for the same lock file.  A system call whose result the code tests may   *)
(* fail wherever the model gives it a failing outcome; a call whose result  *)
(* the code discards (kill and waitpid at pipe.cpp:182-183, ftruncate at    *)
(* pipe.cpp:342, the close of the lock descriptor) has its successful       *)
(* effect.  All six gated signals are blocked while a blocking call of the  *)
(* supervisor is pending, so no such call is interrupted; fcntl on a        *)
(* descriptor just obtained succeeds, and so does a read of the error pipe. *)
(*                                                                          *)
(* The module also models daemon_pipe::try_error_write (TewSpec) and, as a  *)
(* process of its own, the setuid helper of src/exec_with_namespace.cpp     *)
(* with the launcher exec_with_namespace() of src/exec.cpp (HelperSpec).    *)
(* Command-line tokens, paths and file contents are sequences of            *)
(* characters.  The helper's fprintf, fclose, clearenv and putenv, whose    *)
(* results it discards, have their successful effect.                       *)
(***************************************************************************)
EXTENDS Integers, Sequences, FiniteSets, TLC

\* ------------------------------------------------------------------ bounds
MaxProcs == 2
MaxSignals == 1

\* --------------------------------------------------------------- constants
SelfPid == 41
OtherPid == 7
StalePid == 23
FirstChildPid == 100

None == "none"

\* m_sigset without the sigaddset of SIGCHLD.
GatedWithoutCHLD == {"HUP", "TERM", "INT", "QUIT", "PIPE"}

\* The signals SignalBlocker blocks (m_sigset).
Gated == {"CHLD", "HUP", "TERM", "INT", "QUIT", "PIPE"}

\* The cases of harvest's switch that forward the signal.
Forwarded == {"TERM", "INT", "QUIT"}

\* Signals other processes send to the supervisor; SIGCHLD comes from children.
External == {"HUP", "TERM", "INT", "QUIT", "PIPE"}

SigNum(s) ==
    CASE s = "HUP" -> 1 [] s = "INT" -> 2 [] s = "QUIT" -> 3
      [] s = "PIPE" -> 13 [] s = "TERM" -> 15 [] s = "CHLD" -> 17

\* Raw wait statuses: exit code c is c * 256, death by signal s is SigNum(s).
ExitStatus(c) == c * 256

VARIABLES
    pc,         \* control point of the supervisor inside exec()
    exc,        \* the failure in flight or propagated out of exec(), or None
    swallowed,  \* the failure ~ProcHarvester caught and dropped, or None
    specs,      \* m_specs: the daemon_proc_spec objects, in declaration order
    fspec,      \* the file_spec objects, by identity
    lockFile,   \* m_lockFile is not empty
    procs,      \* harvester.m_procs
    files,      \* files.m_files (a sequence of File), << >> once destroyed
    i,          \* the loop index of the loop the supervisor is in
    pgid,       \* exec()'s local pgid
    somethingleft, \* harvest()'s local
    sig,        \* harvest()'s local: the signal sigwait returned
    sigmask,    \* the supervisor's signal mask
    hup,        \* the supervisor's SIGHUP disposition
    oldset,     \* SignalBlocker.m_oldset
    oldHUP,     \* SignalBlocker.m_oldHUPAction
    caller,     \* mask and SIGHUP disposition when exec() was called
    pending,    \* signals pending at the supervisor
    sigBudget,  \* external signals still to arrive
    child,      \* the child process forked for each Proc
    errpipe,    \* the error-reporting pipe of the fork under way
    nextPid,    \* the pid the next fork returns
    forkLog,    \* the Procs forked so far, in order
    sent,       \* the kill calls the supervisor's latest step made
    lockFd,     \* LockFile.m_fd is open
    lockHolder, \* who holds the flock on the lock file
    lockExists, \* the lock file exists
    lockData,   \* the bytes of the lock file
    lockTry,    \* how this run's LockFile::open ended
    other,      \* the competing supervisor
    fds,        \* the File descriptors open in the supervisor
    entry,      \* the member of daemon_pipe that was called
    input,      \* try_error_write's argument
    fed,        \* the bytes written to the stdin pipe of try_error_write's child
    errOut,     \* the bytes try_error_write has written to the caller's stderr
    hpc,        \* control point of the setuid helper (exec_with_namespace.cpp)
    launch,     \* the arguments and environ of exec_with_namespace()
    cmdline,    \* the helper's argv, argv[0] first
    env_args,   \* main's env_args
    ns_args,    \* main's ns_args
    exec_args,  \* main's exec_args, without the terminating NULL
    it,         \* the iterator of create_symlinks_and_metadata's loop
    tree,       \* what is below the mount point in the helper's namespace
    ids,        \* the helper's real, effective and saved user and group ids
    environ,    \* the helper's environment
    diag,       \* the diagnostics the helper printed to stderr
    ret,        \* the helper's exit code, << >> while it has none
    trace,      \* the helper's state-changing calls that succeeded, in order
    delivered,  \* the signals delivered to the supervisor when unblocked
    handle,     \* the FD objects of the FD scenario: m_fd and whether alive
    closes,     \* how often close() was called on each descriptor
    owned,      \* the descriptors an FD object has held
    nextFd,     \* the descriptor the next open, dup or pipe returns
    surfaced    \* whether the latest FD operation threw to its caller

\* The state of try_error_write beyond that of exec().
tewVars == << entry, input, fed, errOut >>

\* The state of the setuid helper.
helperVars == << hpc, launch, cmdline, env_args, ns_args, exec_args, it, tree,
                ids, environ, diag, ret, trace >>

\* The state of the FD scenario.
fdVars == << handle, closes, owned, nextFd, surfaced >>

vars == << pc, exc, swallowed, specs, fspec, lockFile, procs, files, i, pgid,
           somethingleft, sig, sigmask, hup, oldset, oldHUP, caller, pending,
           sigBudget, child, errpipe, nextPid, forkLog, sent, lockFd,
           lockHolder, lockExists, lockData, lockTry, other, fds, entry,
           input, fed, errOut, hpc, launch, cmdline, env_args, ns_args,
           exec_args, it, tree, ids, environ, diag, ret, trace, delivered,
         handle, closes, owned, nextFd, surfaced >>

\* --------------------------------------------------------------------- failure

\* class failure: kind names the CHECK that threw, text is what() as a
\* sequence of tokens.
NoFailure == [kind |-> "none", text |-> << >>]
Failure(kind) == [kind |-> kind, text |-> << kind >>]

\* -------------------------------------------------------------------- LockFile

Digit(d) == CASE d = 0 -> "0" [] d = 1 -> "1" [] d = 2 -> "2" [] d = 3 -> "3"
              [] d = 4 -> "4" [] d = 5 -> "5" [] d = 6 -> "6" [] d = 7 -> "7"
              [] d = 8 -> "8" [] d = 9 -> "9"

RECURSIVE Decimal(_)
Decimal(n) == IF n < 10 THEN << Digit(n) >>
              ELSE Append(Decimal(n \div 10), Digit(n % 10))

\* The pid with no newline after it.
PidBare(pid) == Decimal(pid)

\* snprintf(buf, sizeof(buf)-1, "%d\n", getpid())
PidLine(pid) == Append(Decimal(pid), "\n")

\* ------------------------------------------------------------ daemon_proc_spec

\* resetStatus without m_exited = false.
resetStatusKeepsExited(s) == [s EXCEPT !.m_pid = -1, !.m_status = 0]

\* daemon_proc_spec::resetStatus
resetStatus(s) == [s EXCEPT !.m_pid = -1, !.m_exited = FALSE, !.m_status = 0]

started(s) == s.m_pid # -1
running(s) == s.m_pid # -1 /\ ~s.m_exited
finished(s) == started(s) /\ ~running(s)

NewSpec(fwd, argv, in, out, err) ==
    resetStatus([m_forwardSignals |-> fwd, m_cmdArgv |-> argv, m_stdin |-> in,
                 m_stdout |-> out, m_stderr |-> err, m_pid |-> -1,
                 m_exited |-> FALSE, m_status |-> 0])

\* A spec as a finished earlier run of the same daemon_pipe left it.
Rerun(s) == [s EXCEPT !.m_pid = StalePid, !.m_exited = TRUE,
                      !.m_status = ExitStatus(1)]

\* --------------------------------------------------------------------- FileMap

\* File::File.  A side that is 0 is a null FDPtr; mode is the flag word handed
\* to ::open and dup the descriptor handed to ::dup, -1 while there is none.
NewFile(spec) ==
    [m_spec |-> spec, m_append |-> fspec[spec].m_append,
     m_wantRead |-> FALSE, m_wantWrite |-> FALSE,
     m_readSide |-> 0, m_writeSide |-> 0, mode |-> -1, dup |-> -1]

\* Two file_specs compared by the path they name.
SamePath(a, b) == fspec[a].m_filename = fspec[b].m_filename

\* (*i)->m_spec == spec compares two shared_ptr: the identity of the file_spec.
SameSpec(a, b) == a = b

FindFile(m_files, spec) ==
    LET hits == { k \in 1..Len(m_files) : SameSpec(m_files[k].m_spec, spec) }
    IN  IF hits = {} THEN 0
        ELSE CHOOSE k \in hits : \A j \in hits : k <= j

\* FileMap::get: the table after the call and the index of the File returned.
FileMapGet(m_files, spec, wantRead, wantWrite) ==
    LET f == FindFile(m_files, spec)
        fs == IF f = 0 THEN Append(m_files, NewFile(spec)) ELSE m_files
        k == IF f = 0 THEN Len(fs) ELSE f
    IN  [files |-> [fs EXCEPT ![k].m_wantRead = @ \/ wantRead,
                              ![k].m_wantWrite = @ \/ wantWrite],
         idx |-> k]

NewProc == [m_stdin |-> 0, m_stdout |-> 0, m_stderr |-> 0, m_newPGID |-> -1,
            m_blockedSignals |-> FALSE]

NoChild == [st |-> "none", pid |-> -1, pgid |-> -1, status |-> 0,
            sigs |-> {}, mask |-> {}, hup |-> None, execd |-> FALSE,
            err |-> None]

\* ------------------------------------------------------------------------ Init

\* An argv that is empty, one that names a program, one that names none.
ArgvChoices == { << >>, << "cat" >>, << "/does/not/exist" >> }

Pipe == [m_filename |-> "", m_append |-> FALSE]
Path(name) == [m_filename |-> name, m_append |-> FALSE]

\* A chain of n processes: each reads the pipe its predecessor writes, the
\* last one writes stdout and stderr to the caller's stdout.
Chain(n, fwd, argv) ==
    [k \in 1..n |-> NewSpec(fwd[k], argv[k], IF k = 1 THEN 0 ELSE k - 1, k,
                            IF k = n THEN k ELSE 0)]

ChainFiles(n) ==
    [k \in 1..(MaxProcs + 1) |-> IF k < n THEN Pipe ELSE Path("/dev/stdout")]

NoLock == [lockFile |-> FALSE, other |-> "gone", exists |-> FALSE,
           data |-> << >>]

LockChoices ==
    { NoLock,
      [lockFile |-> TRUE, other |-> "holding", exists |-> TRUE,
       data |-> PidLine(OtherPid)],
      [lockFile |-> TRUE, other |-> "idle", exists |-> FALSE, data |-> << >>],
      [lockFile |-> TRUE, other |-> "idle", exists |-> TRUE, data |-> << >>],
      [lockFile |-> TRUE, other |-> "idle", exists |-> TRUE,
       data |-> PidLine(StalePid)] }

CallerChoices == [mask : { {}, {"TERM"} }, hup : { "DFL", "IGN" }]

\* Pipelines of every length under signals from outside, run without a lock
\* file by a caller that blocks nothing.
SignalRuns ==
    { [specs |-> Chain(n, fwd, argv), fspec |-> ChainFiles(n), lock |-> NoLock,
       caller |-> [mask |-> {}, hup |-> "DFL"], signals |-> MaxSignals] :
         n \in 0..MaxProcs, fwd \in [1..MaxProcs -> BOOLEAN],
         argv \in [1..MaxProcs -> ArgvChoices] }

\* One process: every state of the lock file and of the caller's signals,
\* fresh or left over from an earlier run of the same pipeline; unwired, or
\* with stdout and stderr on one file_spec, or on two file_specs that name
\* the same path.
ResourceRuns ==
    { [specs |-> << IF rerun THEN Rerun(NewSpec(FALSE, argv, t[1], t[2], t[3]))
                    ELSE NewSpec(FALSE, argv, t[1], t[2], t[3]) >>,
       fspec |-> [k \in 1..(MaxProcs + 1) |-> IF k = 1 THEN Pipe ELSE Path(out)],
       lock |-> lock, caller |-> c, signals |-> 0] :
         rerun \in BOOLEAN, argv \in ArgvChoices,
         t \in { <<0, 0, 0>>, <<1, 2, 2>>, <<1, 2, 3>> }, out \in { "/dev/stdout", "/tmp/out" },
         lock \in LockChoices, c \in CallerChoices }

\* No FD object is followed on its own.
FdIdle ==
    /\ handle = << >>
    /\ closes = << >>
    /\ owned = {}
    /\ nextFd = 0
    /\ surfaced = FALSE

\* exec_with_namespace() has not been called.
NoLaunch == [devname |-> << >>, namespace_argv |-> << >>, cmd_argv |-> << >>,
             environ |-> << >>]

\* No helper runs beside the supervisor.
HelperIdle ==
    /\ hpc = None
    /\ launch = NoLaunch
    /\ cmdline = << >>
    /\ env_args = << >>
    /\ ns_args = << >>
    /\ exec_args = << >>
    /\ it = 0
    /\ tree = [dirs |-> {}]
    /\ ids = [ruid |-> None]
    /\ environ = << >>
    /\ diag = << >>
    /\ ret = << >>
    /\ trace = << >>

\* One process that runs `cat` with one of its standard descriptors, or two
\* of them, on one file_spec that names a special file or another path,
\* with and without append.
EndpointRuns ==
    { [specs |-> << NewSpec(FALSE, << "cat" >>, t[1], t[2], t[3]) >>,
       fspec |-> [k \in 1..(MaxProcs + 1) |->
                    IF k = 1 THEN Pipe
                    ELSE [m_filename |-> name, m_append |-> append]],
       lock |-> NoLock, caller |-> [mask |-> {}, hup |-> "DFL"],
       signals |-> 0] :
         t \in { <<2, 0, 0>>, <<0, 2, 0>>, <<0, 0, 2>>, <<2, 2, 0>>,
                 <<2, 0, 2>> },
         name \in { "/dev/stdin", "/dev/stdout", "/dev/stderr", "/tmp/out" },
         append \in BOOLEAN }

InitOf(cfg) ==
    /\ pc = "start"
    /\ exc = NoFailure
    /\ swallowed = NoFailure
    /\ specs = cfg.specs
    /\ fspec = cfg.fspec
    /\ lockFile = cfg.lock.lockFile
    /\ procs = << >>
    /\ files = << >>
    /\ i = 0
    /\ pgid = 0
    /\ somethingleft = FALSE
    /\ sig = None
    /\ sigmask = cfg.caller.mask
    /\ hup = cfg.caller.hup
    /\ caller = cfg.caller
    /\ oldset = {}
    /\ oldHUP = None
    /\ pending = {}
    /\ sigBudget = cfg.signals
    /\ child = [k \in 1..MaxProcs |-> NoChild]
    /\ errpipe = None
    /\ nextPid = FirstChildPid
    /\ forkLog = << >>
    /\ sent = {}
    /\ lockFd = FALSE
    /\ lockTry = None
    /\ other = cfg.lock.other
    /\ lockHolder = IF cfg.lock.other = "holding" THEN "other" ELSE None
    /\ lockExists = cfg.lock.exists
    /\ lockData = cfg.lock.data
    /\ fds = {}
    /\ entry = "exec"
    /\ input = << >>
    /\ fed = << >>
    /\ errOut = << >>
    /\ delivered = {}
    /\ HelperIdle
    /\ FdIdle

Init == \E cfg \in SignalRuns \cup ResourceRuns \cup EndpointRuns : InitOf(cfg)

\* ------------------------------------------------------- exec(): construction

\* A failure leaves exec(): the destructors of files, harvester, lock and
\* signals run, in that order, before it reaches the caller.
Throw(f) == exc' = f /\ pc' = "t_files"

\* pipe.cpp:350
ExecBegin ==
    /\ pc = "start"
    /\ IF Len(specs) = 0
         THEN exc' = Failure("no procs to execute") /\ pc' = "raised"
         ELSE exc' = exc /\ pc' = "gate"
    /\ UNCHANGED << swallowed, specs, fspec, lockFile, procs, files, i, pgid,
                    somethingleft, sig, sigmask, hup, oldset, oldHUP, caller,
                    pending, sigBudget, child, errpipe, nextPid, forkLog,
                    sent, lockFd, lockHolder, lockExists, lockData,
                    lockTry, other >>
    /\ UNCHANGED << fds, tewVars, helperVars, fdVars, delivered >>

\* SignalBlocker::SignalBlocker.  A constructor that throws runs no destructor.
SignalBlockerCtor ==
    /\ pc = "gate"
    /\ \E r \in { "ok", "sigaction failed", "sigprocmask failed" } :
          /\ oldHUP' = IF r = "sigaction failed" THEN oldHUP ELSE hup
          /\ hup' = IF r = "sigaction failed" THEN hup ELSE "IGN"
          /\ oldset' = IF r = "ok" THEN sigmask ELSE oldset
          /\ sigmask' = IF r = "ok" THEN sigmask \cup Gated ELSE sigmask
          /\ IF r = "ok"
               THEN exc' = exc /\ pc' = "wire" /\ i' = 1
               ELSE exc' = Failure(r) /\ pc' = "raised" /\ i' = i
    /\ UNCHANGED << swallowed, specs, fspec, lockFile, procs, files, pgid,
                    somethingleft, sig, caller, pending, sigBudget, child,
                    errpipe, nextPid, forkLog, sent, lockFd,
                    lockHolder, lockExists, lockData, lockTry, other >>
    /\ UNCHANGED << fds, tewVars, helperVars, fdVars, delivered >>

\* ProcHarvester::addProc
addProc(m_procs) == Append(m_procs, NewProc)

\* One turn of the loop at pipe.cpp:366-376.
WireProc ==
    /\ pc = "wire"
    /\ i <= Len(specs)
    /\ LET s == specs[i]
           g1 == IF s.m_stdin # 0
                   THEN FileMapGet(files, s.m_stdin, TRUE, FALSE)
                   ELSE [files |-> files, idx |-> 0]
           g2 == IF s.m_stdout # 0
                   THEN FileMapGet(g1.files, s.m_stdout, FALSE, TRUE)
                   ELSE [files |-> g1.files, idx |-> 0]
           g3 == IF s.m_stderr # 0
                   THEN FileMapGet(g2.files, s.m_stderr, FALSE, TRUE)
                   ELSE [files |-> g2.files, idx |-> 0]
           ps == addProc(procs)
       IN  /\ specs' = [specs EXCEPT ![i] = resetStatus(s)]
           /\ procs' = [ps EXCEPT ![Len(ps)].m_stdin = g1.idx,
                                  ![Len(ps)].m_stdout = g2.idx,
                                  ![Len(ps)].m_stderr = g3.idx]
           /\ files' = g3.files
    /\ i' = i + 1
    /\ pc' = IF i = Len(specs) THEN "lock" ELSE "wire"
    /\ UNCHANGED << exc, swallowed, fspec, lockFile, pgid, somethingleft, sig,
                    sigmask, hup, oldset, oldHUP, caller, pending, sigBudget,
                    child, errpipe, nextPid, forkLog, sent, lockFd,
                    lockHolder, lockExists, lockData, lockTry, other >>
    /\ UNCHANGED << fds, tewVars, helperVars, fdVars, delivered >>

\* The descriptor left open when flock fails.
FlockFailedKeepsFd(fd) == fd

\* m_fd.reset() at pipe.cpp:317: m_fd is closed when flock fails, so that
\* ~LockFile will not truncate the file.
FlockFailed(fd) == FALSE

\* pipe.cpp:378-379 with LockFile::open
LockOpen ==
    /\ pc = "lock"
    /\ i' = 1
    /\ IF ~lockFile
         THEN /\ pc' = "open"
              /\ UNCHANGED << exc, lockFd, lockHolder, lockExists, lockData,
                              lockTry >>
         ELSE \E r \in { "ok", "unable to open pidfile", "unable to lock pidfile",
                         "unable to truncate lockfile",
                         "unable to write to lockfile" } :
            IF r = "unable to open pidfile"
              THEN /\ Throw(Failure(r))
                   /\ UNCHANGED << lockFd, lockHolder, lockExists, lockData,
                                   lockTry >>
            ELSE IF lockHolder = "other"
              THEN /\ r = "ok"
                   /\ lockExists' = TRUE
                   /\ lockFd' = FlockFailed(TRUE)
                   /\ lockTry' = "EWOULDBLOCK"
                   /\ Throw(Failure("process is already running"))
                   /\ UNCHANGED << lockHolder, lockData >>
            ELSE IF r = "unable to lock pidfile"
              THEN /\ lockExists' = TRUE
                   /\ lockData' = IF lockExists THEN lockData ELSE << >>
                   /\ lockFd' = FlockFailed(TRUE)
                   /\ lockTry' = "error"
                   /\ Throw(Failure(r))
                   /\ UNCHANGED lockHolder
            ELSE /\ lockExists' = TRUE
                 /\ lockFd' = TRUE
                 /\ lockHolder' = "self"
                 /\ lockTry' = IF r = "ok" THEN "ok" ELSE "aborted"
                 /\ CASE r = "ok" ->
                           /\ lockData' = PidLine(SelfPid)
                           /\ pc' = "open" /\ exc' = exc
                      [] r = "unable to truncate lockfile" ->
                           /\ lockData' = IF lockExists THEN lockData ELSE << >>
                           /\ Throw(Failure(r))
                      [] r = "unable to write to lockfile" ->
                           /\ \E n \in 0..(Len(PidLine(SelfPid)) - 1) :
                                 lockData' = SubSeq(PidLine(SelfPid), 1, n)
                           /\ Throw(Failure(r))
    /\ UNCHANGED << swallowed, specs, fspec, lockFile, procs, files, pgid,
                    somethingleft, sig, sigmask, hup, oldset, oldHUP, caller,
                    pending, sigBudget, child, errpipe, nextPid, forkLog,
                    sent, other >>
    /\ UNCHANGED << fds, tewVars, helperVars, fdVars, delivered >>

\* The descriptors of the k-th File: abstract numbers, distinct per File.
FdOf(k, side) == 10 + 2 * k + side

BitOr(a, b) == a + (IF (a \div b) % 2 = 1 THEN 0 ELSE b)

\* Every special file named by the descriptor of the caller's standard output.
StdFdAllOut(name) == 1

\* STDIN_FILENO, STDOUT_FILENO and STDERR_FILENO for the three special names
\* (pipe.cpp:90, :97, :104).
StdFd(name) ==
    CASE name = "/dev/stdin" -> 0
      [] name = "/dev/stdout" -> 1
      [] name = "/dev/stderr" -> 2

\* File::open on File f, the k-th of the table; ok: the system calls succeed.
FileOpened(f, k, ok) ==
    LET name == fspec[f.m_spec].m_filename
        fd == IF ok THEN FdOf(k, 0) ELSE -1
    IN  IF name = ""
          THEN [file |-> IF ok
                           THEN [f EXCEPT !.m_readSide = FdOf(k, 0),
                                          !.m_writeSide = FdOf(k, 1)]
                           ELSE [f EXCEPT !.m_readSide = -1, !.m_writeSide = -1],
                err |-> IF ok THEN "none" ELSE "pipe failed"]
        ELSE IF name = "/dev/stdin"
          THEN IF f.m_wantWrite
                 THEN [file |-> f,
                       err |-> "caller_stdin cannot be used for writing"]
                 ELSE [file |-> IF ok
                                  THEN [f EXCEPT !.m_readSide = fd,
                                                 !.dup = StdFd(name)]
                                  ELSE f,
                       err |-> IF ok THEN "none" ELSE "dup failed"]
        ELSE IF name \in { "/dev/stdout", "/dev/stderr" }
          THEN IF f.m_wantRead
                 THEN [file |-> f,
                       err |-> "caller_stdout cannot be used for reading"]
                 ELSE [file |-> IF ok
                                  THEN [f EXCEPT !.m_writeSide = fd,
                                                 !.dup = StdFd(name)]
                                  ELSE f,
                       err |-> IF ok THEN "none" ELSE "dup failed"]
        ELSE LET m1 == 0  \* mode |= O_RDONLY leaves mode as it is: O_RDONLY is 0
                 m2 == IF f.m_wantWrite THEN BitOr(BitOr(m1, 64), 1) ELSE m1
                 m3 == IF f.m_wantWrite /\ f.m_append THEN BitOr(m2, 1024) ELSE m2
             IN  [file |-> [f EXCEPT
                       !.m_readSide = IF f.m_wantRead THEN fd ELSE 0,
                       !.m_writeSide = IF f.m_wantWrite THEN fd ELSE 0,
                       !.mode = m3],
                  err |-> IF ok THEN "none" ELSE "open failed"]

\* The descriptors File f holds open.
FdsOf(f) == { f.m_readSide, f.m_writeSide } \ { 0, -1 }

\* One turn of the loop at pipe.cpp:381-384.
FileOpen ==
    /\ pc = "open"
    /\ IF i > Len(files)
         THEN /\ pc' = "fork" /\ i' = 1
              /\ UNCHANGED << exc, files, fds >>
         ELSE \E ok \in BOOLEAN :
                LET r == FileOpened(files[i], i, ok)
                IN  /\ files' = [files EXCEPT ![i] = r.file]
                    /\ fds' = fds \cup FdsOf(r.file)
                    /\ IF r.err = "none"
                         THEN pc' = "open" /\ i' = i + 1 /\ exc' = exc
                         ELSE Throw(Failure(r.err)) /\ i' = i
    /\ UNCHANGED << swallowed, specs, fspec, lockFile, procs, pgid,
                    somethingleft, sig, sigmask, hup, oldset, oldHUP, caller,
                    pending, sigBudget, child, errpipe, nextPid, forkLog,
                    sent, lockFd, lockHolder, lockExists, lockData,
                    lockTry, other >>
    /\ UNCHANGED << tewVars, helperVars, fdVars, delivered >>

\* ------------------------------------------------------------ safe_fork_exec

\* The process group of the supervisor, which a child is born into.
SelfPgid == SelfPid

\* An exec_args that never reports itself empty.
ArgvNeverEmpty(argv) == FALSE

\* exec_args::empty
ArgvEmpty(argv) == Len(argv) = 0

\* execvp finds the program argv names.
ExecFinds(argv) == argv # << "/does/not/exist" >>

\* pipe.cpp:387-392 and safe_fork_exec up to fork() (pipe.cpp:134-142); past
\* the last Proc the body of exec() ends and its locals are destroyed.  A
\* failing pipe() or fcntl() of the error pipe leaves by the same path as a
\* failing fork(): before the try block, with no child.
ForkProc ==
    /\ pc = "fork"
    /\ IF i > Len(procs)
         THEN /\ pc' = "t_files"
              /\ UNCHANGED << exc, procs, child, errpipe, nextPid, forkLog >>
         ELSE /\ procs' = [procs EXCEPT ![i].m_blockedSignals = TRUE,
                                       ![i].m_newPGID = pgid]
              /\ IF ArgvEmpty(specs[i].m_cmdArgv)
                   THEN /\ Throw(Failure("cmd_argv is empty"))
                        /\ UNCHANGED << child, errpipe, nextPid, forkLog >>
                   ELSE \E r \in { "ok", "fork failed" } :
                          IF r # "ok"
                            THEN /\ Throw(Failure(r))
                                 /\ UNCHANGED << child, errpipe, nextPid,
                                                 forkLog >>
                            ELSE /\ child' = [child EXCEPT ![i] =
                                        [st |-> "forked", pid |-> nextPid,
                                         pgid |-> SelfPgid, status |-> 0,
                                         sigs |-> {}, mask |-> sigmask,
                                         hup |-> hup, execd |-> FALSE,
                                         err |-> None]]
                                 /\ nextPid' = nextPid + 1
                                 /\ forkLog' = Append(forkLog, i)
                                 /\ errpipe' = "open"
                                 /\ pc' = "read"
                                 /\ exc' = exc
    /\ UNCHANGED << swallowed, specs, fspec, lockFile, files, i, pgid,
                    somethingleft, sig, sigmask, hup, oldset, oldHUP, caller,
                    pending, sigBudget, sent, lockFd, lockHolder,
                    lockExists, lockData, lockTry, other >>
    /\ UNCHANGED << fds, tewVars, helperVars, fdVars, delivered >>

\* setpgid(0, 0) whatever m_newPGID is: every child leads a group of its own.
SetpgidOwn(pid, m_newPGID) == pid

\* The process group setpgid(0, m_newPGID) puts the calling child in.
Setpgid(pid, m_newPGID) == IF m_newPGID = 0 THEN pid ELSE m_newPGID

\* An unblock that leaves the mask as it is.
unblockNothing(mask) == mask

\* SignalBlocker::unblock: sigprocmask(SIG_SETMASK, &m_oldset, NULL)
unblock(mask) == oldset

\* SIGCHLD reaches the supervisor when a child terminates.
Raise(s) == IF s \in sigmask THEN pending \cup {s} ELSE pending

\* The child between fork() and execvp (pipe.cpp:146-168).  It fails at one of
\* its steps, writes the text to the error pipe and _exit(1)s, or it execs and
\* the close-on-exec write end of the error pipe closes.
ChildPreExec(k) ==
    /\ child[k].st = "forked"
    /\ LET p == procs[k]
           c == child[k]
           wired == p.m_stdin # 0 \/ p.m_stdout # 0 \/ p.m_stderr # 0
           grouped == [c EXCEPT !.pgid = IF p.m_newPGID >= 0
                                           THEN Setpgid(c.pid, p.m_newPGID)
                                           ELSE c.pgid]
           unblocked == [grouped EXCEPT !.mask = IF p.m_blockedSignals
                                                   THEN unblock(c.mask)
                                                   ELSE c.mask]
           died(cc, e) == [cc EXCEPT !.st = "zombie", !.status = ExitStatus(1),
                                     !.sigs = {}, !.err = e]
       IN  \E r \in { "exec", "setpgid failed", "dup2 failed",
                      "sigprocmask failed" } :
             CASE r = "setpgid failed" ->
                    /\ p.m_newPGID >= 0
                    /\ child' = [child EXCEPT ![k] = died(c, r)]
                    /\ errpipe' = r
                    /\ pending' = Raise("CHLD")
               [] r = "dup2 failed" ->
                    /\ wired
                    /\ child' = [child EXCEPT ![k] = died(grouped, r)]
                    /\ errpipe' = r
                    /\ pending' = Raise("CHLD")
               [] r = "sigprocmask failed" ->
                    /\ p.m_blockedSignals
                    /\ child' = [child EXCEPT ![k] = died(grouped, r)]
                    /\ errpipe' = r
                    /\ pending' = Raise("CHLD")
               [] r = "exec" ->
                    IF ExecFinds(specs[k].m_cmdArgv)
                      THEN /\ child' = [child EXCEPT ![k] =
                                 [unblocked EXCEPT !.st = "running",
                                                   !.execd = TRUE]]
                           /\ errpipe' = "eof"
                           /\ pending' = pending
                      ELSE /\ child' = [child EXCEPT ![k] = died(unblocked,
                                                                   "execvp failed")]
                           /\ errpipe' = "execvp failed"
                           /\ pending' = Raise("CHLD")
    /\ UNCHANGED << pc, exc, swallowed, specs, fspec, lockFile, procs, files,
                    i, pgid, somethingleft, sig, sigmask, hup, oldset, oldHUP,
                    caller, sigBudget, nextPid, forkLog, sent, lockFd,
                    lockHolder, lockExists, lockData, lockTry, other >>
    /\ UNCHANGED << fds, tewVars, helperVars, fdVars, delivered >>

\* kill(pid, s): a live process takes the signal, a zombie is past it.
Kill(ch, pid, s) ==
    [k \in DOMAIN ch |->
        IF ch[k].pid = pid /\ ch[k].st \in { "forked", "running" }
          THEN [ch[k] EXCEPT !.sigs = @ \cup {s}]
          ELSE ch[k]]

\* The strings what() can give for failure f.  The parent fills m_err from the
\* error pipe with read(), which writes no terminating NUL: what() is then the
\* bytes read followed by whatever m_err held beyond them.
What(f) == IF f.kind = "child"
             THEN { f.text, f.text \o << "<uninitialized>" >> }
             ELSE { f.text }

\* The failure safe_fork_exec fills from the error pipe and throws
\* (pipe.cpp:171-175).
ChildFailure(text) == [kind |-> "child", text |-> << text >>]

\* The parent after fork(): pipe.cpp:170-185.  The read end is a valid pipe
\* that only this process reads: read() returns the child's text, or 0 once
\* the write end is closed.  On a failure the catch block sends SIGTERM.
ForkRead ==
    /\ pc = "read"
    /\ \/ /\ errpipe = "eof"
          /\ specs' = [specs EXCEPT ![i].m_pid = child[i].pid]
          /\ pgid' = IF pgid = 0 THEN child[i].pid ELSE pgid
          /\ i' = i + 1
          /\ pc' = "fork"
          /\ UNCHANGED << exc, child, sent >>
       \/ /\ errpipe \notin { "open", "eof" }
          /\ exc' = ChildFailure(errpipe)
          /\ child' = Kill(child, child[i].pid, "TERM")
          /\ sent' = { [proc |-> i, pid |-> child[i].pid, sig |-> "TERM",
                        ok |-> TRUE] }
          /\ pc' = "reap"
          /\ UNCHANGED << specs, pgid, i >>
    /\ errpipe' = None
    /\ UNCHANGED << swallowed, fspec, lockFile, procs, files, somethingleft,
                    sig, sigmask, hup, oldset, oldHUP, caller, pending,
                    sigBudget, nextPid, forkLog, lockFd,
                    lockHolder, lockExists, lockData, lockTry, other >>
    /\ UNCHANGED << fds, tewVars, helperVars, fdVars, delivered >>

\* The catch block without its waitpid.
ForkNoReap ==
    /\ pc = "reap"
    /\ pc' = "t_files"
    /\ UNCHANGED << exc, swallowed, specs, fspec, lockFile, procs, files, i,
                    pgid, somethingleft, sig, sigmask, hup, oldset, oldHUP,
                    caller, pending, sigBudget, child, errpipe, nextPid,
                    forkLog, sent, lockFd, lockHolder, lockExists, lockData,
                    lockTry, other >>
    /\ UNCHANGED << fds, tewVars, helperVars, fdVars, delivered >>

\* waitpid(pid, NULL, 0) at pipe.cpp:183 returns once the child is dead; then
\* the failure is thrown on.
ForkReap ==
    /\ pc = "reap"
    /\ child[i].st = "zombie"
    /\ child' = [child EXCEPT ![i].st = "reaped"]
    /\ pc' = "t_files"
    /\ UNCHANGED << exc, swallowed, specs, fspec, lockFile, procs, files, i,
                    pgid, somethingleft, sig, sigmask, hup, oldset, oldHUP,
                    caller, pending, sigBudget, errpipe, nextPid, forkLog,
                    sent, lockFd, lockHolder, lockExists, lockData,
                    lockTry, other >>
    /\ UNCHANGED << fds, tewVars, helperVars, fdVars, delivered >>

\* A child that runs its program terminates: it exits, or a signal it was
\* sent kills it.
ChildExit(k) ==
    /\ child[k].st = "running"
    /\ \E st \in { ExitStatus(0), ExitStatus(1) }
                 \cup { SigNum(s) : s \in child[k].sigs } :
          child' = [child EXCEPT ![k].st = "zombie", ![k].status = st,
                                 ![k].sigs = {}]
    /\ pending' = Raise("CHLD")
    /\ UNCHANGED << pc, exc, swallowed, specs, fspec, lockFile, procs, files,
                    i, pgid, somethingleft, sig, sigmask, hup, oldset, oldHUP,
                    caller, sigBudget, errpipe, nextPid, forkLog, sent,
                    lockFd, lockHolder, lockExists, lockData, lockTry, other >>
    /\ UNCHANGED << fds, tewVars, helperVars, fdVars, delivered >>

\* A SIGINT from outside reaches the child between fork() and execvp.  The
\* child inherited the blocked mask, so the signal stays pending through
\* setpgid and dup2 and kills the child when unblock() lets it through
\* (pipe.cpp:158-159), before execvp: the child is gone without a word on the
\* error pipe, whose write end its death closes.
ChildKilled(k) ==
    /\ child[k].st = "forked"
    /\ procs[k].m_blockedSignals
    /\ "INT" \notin unblock(child[k].mask)
    /\ sigBudget > 0
    /\ sigBudget' = sigBudget - 1
    /\ child' = [child EXCEPT ![k].st = "zombie", ![k].status = SigNum("INT"),
                              ![k].sigs = {},
                              ![k].mask = unblock(child[k].mask),
                              ![k].pgid = IF procs[k].m_newPGID >= 0
                                            THEN Setpgid(child[k].pid,
                                                         procs[k].m_newPGID)
                                            ELSE @]
    /\ errpipe' = "eof"
    /\ pending' = Raise("CHLD")
    /\ UNCHANGED << pc, exc, swallowed, specs, fspec, lockFile, procs, files,
                    i, pgid, somethingleft, sig, sigmask, hup, oldset, oldHUP,
                    caller, nextPid, forkLog, sent, lockFd, lockHolder,
                    lockExists, lockData, lockTry, other >>
    /\ UNCHANGED << fds, tewVars, helperVars, fdVars, delivered >>

\* -------------------------------------------------------------------- teardown

\* Only the read sides closed.
ReleasedReadSides(m_files) ==
    { m_files[k].m_readSide : k \in 1..Len(m_files) } \ { 0, -1 }

\* The descriptors closed when every File of m_files is deleted: ~File
\* releases m_readSide and m_writeSide, and ~FD closes.
Released(m_files) == UNION { FdsOf(m_files[k]) : k \in 1..Len(m_files) }

\* ~FileMap deletes every File, which closes its descriptors; next in the
\* order of destruction is the harvester.
CloseFiles ==
    /\ pc = "t_files"
    /\ files' = << >>
    /\ fds' = fds \ Released(files)
    /\ pc' = "scan"
    /\ i' = 1
    /\ somethingleft' = FALSE
    /\ sent' = {}
    /\ UNCHANGED << exc, swallowed, specs, fspec, lockFile, procs, pgid, sig,
                    sigmask, hup, oldset, oldHUP, caller, pending, sigBudget,
                    child, errpipe, nextPid, forkLog, lockFd,
                    lockHolder, lockExists, lockData, lockTry, other >>
    /\ UNCHANGED << tewVars, helperVars, fdVars, delivered >>

\* ------------------------------------------------------- ProcHarvester::harvest

\* harvest() returned to ~ProcHarvester, which clears m_procs.
HarvestReturn == pc' = "t_lock" /\ procs' = << >>

\* harvest() threw f: ~ProcHarvester catches it, drops it, clears m_procs.
HarvestThrow(f) == swallowed' = f /\ pc' = "t_lock" /\ procs' = << >>

\* The child waitpid(pid, ..) is about, 0 when the caller has no such child.
ChildOf(pid) ==
    IF \E k \in DOMAIN child : child[k].pid = pid /\ child[k].st # "reaped"
      THEN CHOOSE k \in DOMAIN child : child[k].pid = pid /\ child[k].st # "reaped"
      ELSE 0

\* One turn of the loop at pipe.cpp:250-266, or the end of the scan
\* (pipe.cpp:268-269).
HarvestScan ==
    /\ pc = "scan"
    /\ IF i > Len(procs)
         THEN /\ IF somethingleft
                   THEN pc' = "sigwait" /\ procs' = procs
                   ELSE HarvestReturn
              /\ UNCHANGED << specs, child, i, somethingleft >>
         ELSE /\ IF ~running(specs[i])
                   THEN UNCHANGED << specs, child, somethingleft >>
                   ELSE LET c == ChildOf(specs[i].m_pid)
                        IN  /\ c # 0
                            /\ IF child[c].st = "zombie"
                                 THEN /\ specs' = [specs EXCEPT
                                            ![i].m_exited = TRUE,
                                            ![i].m_status = child[c].status]
                                      /\ child' = [child EXCEPT
                                            ![c].st = "reaped"]
                                      /\ somethingleft' = somethingleft
                                 ELSE /\ somethingleft' = TRUE
                                      /\ UNCHANGED << specs, child >>
              /\ i' = i + 1
              /\ UNCHANGED << pc, procs >>
    /\ sent' = {}
    /\ UNCHANGED << exc, swallowed, fspec, lockFile, files, pgid, sig, sigmask,
                    hup, oldset, oldHUP, caller, pending, sigBudget, errpipe,
                    nextPid, forkLog, lockFd, lockHolder,
                    lockExists, lockData, lockTry, other >>
    /\ UNCHANGED << fds, tewVars, helperVars, fdVars, delivered >>

\* The signals sigwait(m_sigset) can return now.
Waitable == pending \cap Gated

\* sigwait returns a pending signal of m_sigset (pipe.cpp:272).
HarvestSigwait ==
    /\ pc = "sigwait"
    /\ \E s \in Waitable :
          /\ sig' = s
          /\ pending' = pending \ {s}
    /\ pc' = "dispatch"
    /\ UNCHANGED << exc, swallowed, specs, fspec, lockFile, procs, files, i,
                    pgid, somethingleft, sigmask, hup, oldset, oldHUP, caller,
                    sigBudget, child, errpipe, nextPid, forkLog, sent,
                    lockFd, lockHolder, lockExists, lockData, lockTry, other >>
    /\ UNCHANGED << fds, tewVars, helperVars, fdVars, delivered >>

\* The Procs the loop at pipe.cpp:280-288 calls kill for, in order.
Targets(s) ==
    IF s \in Forwarded
      THEN { k \in 1..Len(procs) :
                running(specs[k]) /\ specs[k].m_forwardSignals }
      ELSE {}

KillCall(k, s, ok) ==
    [proc |-> k, pid |-> specs[k].m_pid, sig |-> s, ok |-> ok]

RECURSIVE KillAll(_, _, _)
KillAll(ch, ks, s) ==
    IF ks = {} THEN ch
    ELSE LET k == CHOOSE x \in ks : TRUE
         IN  KillAll(Kill(ch, specs[k].m_pid, s), ks \ {k}, s)

\* The switch at pipe.cpp:274-301 when every kill succeeds.
HarvestDispatch ==
    /\ pc = "dispatch"
    /\ sent' = { KillCall(k, sig, TRUE) : k \in Targets(sig) }
    /\ child' = KillAll(child, Targets(sig), sig)
    /\ pc' = "scan"
    /\ i' = 1
    /\ somethingleft' = FALSE
    /\ sig' = None
    /\ UNCHANGED << exc, swallowed, specs, fspec, lockFile, procs, files, pgid,
                    sigmask, hup, oldset, oldHUP, caller, pending,
                    sigBudget, errpipe, nextPid, forkLog, lockFd,
                    lockHolder, lockExists, lockData, lockTry, other >>
    /\ UNCHANGED << fds, tewVars, helperVars, fdVars, delivered >>

\* A system call of harvest() fails and its CHECK throws: the waitpid of the
\* scan, sigwait, or one kill of the forwarding loop, the kills before it
\* having succeeded.
HarvestFault ==
    /\ \/ /\ pc = "scan"
          /\ i <= Len(procs)
          /\ running(specs[i])
          /\ HarvestThrow(Failure("waitpid failed"))
          /\ UNCHANGED << sent, child >>
       \/ /\ pc = "sigwait"
          /\ HarvestThrow(Failure("sigwait failed"))
          /\ UNCHANGED << sent, child >>
       \/ /\ pc = "dispatch"
          /\ \E f \in Targets(sig) :
                LET before == { k \in Targets(sig) : k < f }
                IN  /\ sent' = { KillCall(k, sig, TRUE) : k \in before }
                                \cup { KillCall(f, sig, FALSE) }
                    /\ child' = KillAll(child, before, sig)
          /\ HarvestThrow(Failure("kill failed"))
    /\ sig' = None
    /\ UNCHANGED << exc, specs, fspec, lockFile, files, i, pgid, somethingleft,
                    sigmask, hup, oldset, oldHUP, caller, pending,
                    sigBudget, errpipe, nextPid, forkLog, lockFd,
                    lockHolder, lockExists, lockData, lockTry, other >>
    /\ UNCHANGED << fds, tewVars, helperVars, fdVars, delivered >>

\* ------------------------------------------------------- ~LockFile, ~SignalBlocker

\* LockFile::~LockFile: closing the descriptor gives up the flock it carried.
LockRelease ==
    /\ pc = "t_lock"
    /\ IF lockFd
         THEN /\ lockData' = << >>
              /\ lockFd' = FALSE
              /\ lockHolder' = IF lockHolder = "self" THEN None ELSE lockHolder
         ELSE UNCHANGED << lockData, lockFd, lockHolder >>
    /\ pc' = "t_signals"
    /\ sent' = {}
    /\ UNCHANGED << exc, swallowed, specs, fspec, lockFile, procs, files, i,
                    pgid, somethingleft, sig, sigmask, hup, oldset, oldHUP,
                    caller, pending, sigBudget, child, errpipe, nextPid,
                    forkLog, lockExists, lockTry, other >>
    /\ UNCHANGED << fds, tewVars, helperVars, fdVars, delivered >>

\* SIGHUP left as it is.
KeepHUP(cur) == cur

\* The disposition ~SignalBlocker's sigaction installs for SIGHUP.
RestoreHUP(cur) == oldHUP

\* SignalBlocker::~SignalBlocker.  A failing call throws unless a failure is
\* already in flight (std::uncaught_exception()); a signal that is pending and
\* no longer blocked is delivered.
SignalBlockerDtor ==
    /\ pc = "t_signals"
    /\ \E r \in { "ok", "sigprocmask failed", "sigaction failed" } :
          LET unwinding == exc # NoFailure
              thrown == r # "ok" /\ ~unwinding
          IN  /\ sigmask' = IF r = "sigprocmask failed" THEN sigmask
                            ELSE unblock(sigmask)
              /\ hup' = IF r = "sigaction failed"
                           \/ (r = "sigprocmask failed" /\ ~unwinding)
                          THEN hup ELSE RestoreHUP(hup)
              /\ exc' = IF thrown THEN Failure(r) ELSE exc
              /\ pc' = IF exc' = NoFailure THEN "returned" ELSE "raised"
    /\ pending' = pending \cap sigmask'
    /\ delivered' = delivered \cup (pending \ sigmask')
    /\ UNCHANGED << swallowed, specs, fspec, lockFile, procs, files, i, pgid,
                    somethingleft, sig, oldset, oldHUP, caller, sigBudget,
                    child, errpipe, nextPid, forkLog, sent, lockFd,
                    lockHolder, lockExists, lockData, lockTry, other >>
    /\ UNCHANGED << fds, tewVars, helperVars, fdVars >>

\* ----------------------------------------------------------------- environment

\* Another process sends the supervisor a signal; blocked, it stays pending.
SignalArrives(s) ==
    /\ pc \notin { "returned", "raised" }
    /\ sigBudget > 0
    /\ s \in sigmask
    /\ s \notin pending
    /\ pending' = pending \cup {s}
    /\ sigBudget' = sigBudget - 1
    /\ UNCHANGED << pc, exc, swallowed, specs, fspec, lockFile, procs, files,
                    i, pgid, somethingleft, sig, sigmask, hup, oldset, oldHUP,
                    caller, child, errpipe, nextPid, forkLog, sent,
                    lockFd, lockHolder, lockExists, lockData, lockTry, other >>
    /\ UNCHANGED << fds, tewVars, helperVars, fdVars, delivered >>

\* The competing supervisor runs LockFile::open on the same path ...
OtherLocks ==
    /\ other = "idle"
    /\ lockHolder = None
    /\ lockHolder' = "other"
    /\ lockExists' = TRUE
    /\ lockData' = PidLine(OtherPid)
    /\ other' = "holding"
    /\ UNCHANGED << pc, exc, swallowed, specs, fspec, lockFile, procs, files,
                    i, pgid, somethingleft, sig, sigmask, hup, oldset, oldHUP,
                    caller, pending, sigBudget, child, errpipe, nextPid,
                    forkLog, sent, lockFd, lockTry >>
    /\ UNCHANGED << fds, tewVars, helperVars, fdVars, delivered >>

\* ... and its ~LockFile.
OtherReleases ==
    /\ other = "holding"
    /\ lockHolder' = None
    /\ lockData' = << >>
    /\ other' = "gone"
    /\ UNCHANGED << pc, exc, swallowed, specs, fspec, lockFile, procs, files,
                    i, pgid, somethingleft, sig, sigmask, hup, oldset, oldHUP,
                    caller, pending, sigBudget, child, errpipe, nextPid,
                    forkLog, sent, lockFd, lockExists, lockTry >>
    /\ UNCHANGED << fds, tewVars, helperVars, fdVars, delivered >>

\* ------------------------------------------------------------- specifications

Supervisor ==
    \/ ExecBegin
    \/ SignalBlockerCtor
    \/ WireProc
    \/ LockOpen
    \/ FileOpen
    \/ ForkProc
    \/ ForkRead
    \/ ForkReap
    \/ CloseFiles
    \/ HarvestScan
    \/ HarvestSigwait
    \/ HarvestDispatch
    \/ LockRelease
    \/ SignalBlockerDtor

Next ==
    \/ ExecBegin
    \/ SignalBlockerCtor
    \/ WireProc
    \/ LockOpen
    \/ FileOpen
    \/ ForkProc
    \/ ForkRead
    \/ ForkReap
    \/ CloseFiles
    \/ HarvestScan
    \/ HarvestSigwait
    \/ HarvestDispatch
    \/ HarvestFault
    \/ LockRelease
    \/ SignalBlockerDtor
    \/ \E k \in 1..MaxProcs : ChildPreExec(k)
    \/ \E k \in 1..MaxProcs : ChildExit(k)
    \/ \E k \in 1..MaxProcs : ChildKilled(k)
    \/ \E s \in External : SignalArrives(s)
    \/ OtherLocks
    \/ OtherReleases

Spec == Init /\ [][Next]_vars

\* The supervisor keeps running while a step of it is possible, and every
\* child that runs its program terminates.  No call is bound to fail and no
\* signal is bound to arrive.
FairSpec ==
    /\ Spec
    /\ WF_vars(Supervisor)
    /\ \A k \in 1..MaxProcs : WF_vars(ChildExit(k))

\* ------------------------------------------------- daemon_pipe::try_error_write

lockVars == << lockFile, lockFd, lockHolder, lockExists, lockData, lockTry,
               other >>

signalVars == << sig, sigmask, hup, oldset, oldHUP, caller, pending,
                 sigBudget >>

childVars == << child, errpipe, nextPid, forkLog >>

\* The text handed to try_error_write.
Message == << "e", "r", "r" >>

\* WIFEXITED and WEXITSTATUS of a wait status.
WIFEXITED(status) == status % 128 = 0
WEXITSTATUS(status) == (status \div 256) % 256

\* try_error_write is entered on a daemon_pipe of zero, one or two
\* daemon_proc_specs; the SignalBlocker of pipe.cpp:402 is constructed next.
TewInit ==
    \E n \in 0..MaxProcs, fwd \in BOOLEAN, argv \in ArgvChoices,
       signals \in 0..MaxSignals :
        /\ pc = "gate"
        /\ exc = NoFailure
        /\ swallowed = NoFailure
        /\ specs = [k \in 1..n |-> NewSpec(fwd, argv, 0, 0, 0)]
        /\ fspec = ChainFiles(MaxProcs)
        /\ lockFile = FALSE
        /\ procs = << >>
        /\ files = << >>
        /\ i = 0
        /\ pgid = 0
        /\ somethingleft = FALSE
        /\ sig = None
        /\ sigmask = {}
        /\ hup = "DFL"
        /\ caller = [mask |-> {}, hup |-> "DFL"]
        /\ oldset = {}
        /\ oldHUP = None
        /\ pending = {}
        /\ sigBudget = signals
        /\ child = [k \in 1..MaxProcs |-> NoChild]
        /\ errpipe = None
        /\ nextPid = FirstChildPid
        /\ forkLog = << >>
        /\ sent = {}
        /\ lockFd = FALSE
        /\ lockTry = None
        /\ other = NoLock.other
        /\ lockHolder = None
        /\ lockExists = NoLock.exists
        /\ lockData = NoLock.data
        /\ fds = {}
        /\ entry = "try_error_write"
        /\ input = Message
        /\ fed = << >>
        /\ errOut = << >>
        /\ delivered = {}
        /\ HelperIdle
        /\ FdIdle

\* pipe.cpp:406-421: the CHECK on m_specs, the harvester, the pipe that is
\* to be the child's stdin, and the Proc wired to it.  A failure here leaves
\* the try block with no child forked, so the harvest has nothing to wait for.
TewSetup ==
    /\ pc = "wire"
    /\ IF Len(specs) # 1
         THEN /\ exc' = Failure("specs must have 1 element")
              /\ pc' = "t_lock"
              /\ UNCHANGED << specs, procs, files, fds, i >>
         ELSE \E ok \in BOOLEAN :
                LET r == FileOpened(NewFile(1), 1, ok)
                IN  IF r.err # "none"
                      THEN /\ exc' = Failure(r.err)
                           /\ pc' = "t_lock"
                           /\ UNCHANGED << specs, procs, files, fds, i >>
                      ELSE /\ files' = << r.file >>
                           /\ fds' = fds \cup FdsOf(r.file)
                           /\ specs' = [specs EXCEPT ![1] = resetStatus(@)]
                           /\ procs' = << [addProc(<< >>)[1] EXCEPT
                                             !.m_stdin = 1,
                                             !.m_blockedSignals = TRUE,
                                             !.m_newPGID = 0] >>
                           /\ i' = 1
                           /\ pc' = "fork"
                           /\ exc' = exc
    /\ UNCHANGED << swallowed, fspec, pgid, somethingleft, sent, lockVars,
                    signalVars, childVars, tewVars, helperVars, fdVars,
                    delivered >>

\* proc.safe_fork_exec() at pipe.cpp:422: the one Proc is forked as exec()
\* forks its Procs.
TewFork == i <= Len(procs) /\ ForkProc

\* pipe.cpp:423-429: the read side is closed, the text is written to the
\* non-blocking write side in one write(), and the write side is closed; the
\* block ends and its File and harvester are destroyed.  While the child
\* lives the write may take only a part of the text, or fail.  Once the child
\* is dead the pipe has no reader: the write fails with EPIPE and raises
\* SIGPIPE, which stays pending while blocked.
TewFeed ==
    /\ pc = "fork"
    /\ i > Len(procs)
    /\ \/ /\ child[1].st = "running"
          /\ \E n \in 1..Len(input) :
                /\ fed' = SubSeq(input, 1, n)
                /\ files' = [files EXCEPT ![1].m_readSide = -1,
                                          ![1].m_writeSide = -1]
                /\ fds' = fds \ FdsOf(files[1])
                /\ exc' = exc
          /\ pending' = pending
       \/ /\ exc' = Failure("write failed")
          /\ files' = [files EXCEPT ![1].m_readSide = -1]
          /\ fds' = fds \ { files[1].m_readSide }
          /\ fed' = fed
          /\ pending' = IF child[1].st = "running" THEN pending
                        ELSE Raise("PIPE")
    /\ pc' = "t_files"
    /\ UNCHANGED << swallowed, specs, fspec, procs, i, pgid, somethingleft,
                    sent, lockVars, sig, sigmask, hup, oldset, oldHUP, caller,
                    sigBudget, childVars, entry, input, errOut, helperVars,
                    fdVars, delivered >>

\* pipe.cpp:430-438, after the harvester is gone: a child that is not
\* finished with exit status 0 is a failure too, and the catch block writes
\* the text to stderr for any failure of the try block.
TewVerdict ==
    /\ pc = "t_lock"
    /\ LET ok == /\ exc = NoFailure
                 /\ finished(specs[1])
                 /\ WIFEXITED(specs[1].m_status)
                 /\ WEXITSTATUS(specs[1].m_status) = 0
       IN  errOut' = IF ok THEN errOut ELSE errOut \o input
    /\ exc' = NoFailure
    /\ pc' = "t_signals"
    /\ UNCHANGED << swallowed, specs, fspec, procs, files, i, pgid,
                    somethingleft, sent, lockVars, signalVars, childVars, fds,
                    entry, input, fed, helperVars, fdVars, delivered >>

TewNext ==
    \/ SignalBlockerCtor
    \/ TewSetup
    \/ TewFork
    \/ ForkRead
    \/ ForkReap
    \/ TewFeed
    \/ CloseFiles
    \/ HarvestScan
    \/ HarvestSigwait
    \/ HarvestDispatch
    \/ HarvestFault
    \/ TewVerdict
    \/ SignalBlockerDtor
    \/ \E k \in 1..MaxProcs : ChildPreExec(k)
    \/ \E k \in 1..MaxProcs : ChildExit(k)
    \/ \E k \in 1..MaxProcs : ChildKilled(k)
    \/ \E s \in External : SignalArrives(s)

TewSpec == TewInit /\ [][TewNext]_vars

\* ------------------------------------------ the setuid helper: pure functions

\* The token "--".
DashDash == << "-", "-" >>

\* The token "--init.d".
InitD == << "-", "-", "i", "n", "i", "t", ".", "d" >>

\* WITH_MOUNTPOINT
WITH_MOUNTPOINT == << "/", "w", "i", "t", "h" >>

\* WITH_NAMESPACE_DIR "/exec_with_namespace"
HelperPath ==
    << "/", "u", "s", "r", "/", "b", "i", "n", "/", "e", "x", "e", "c", "_",
       "w", "i", "t", "h", "_", "n", "a", "m", "e", "s", "p", "a", "c", "e" >>

\* std::string::find and rfind of one character: its first and its last
\* position in s, counted from 1; 0 stands for npos.
Find(s, c) ==
    IF \E k \in 1..Len(s) : s[k] = c
      THEN CHOOSE k \in 1..Len(s) : s[k] = c /\ \A j \in 1..(k - 1) : s[j] # c
      ELSE 0

RFind(s, c) ==
    IF \E k \in 1..Len(s) : s[k] = c
      THEN CHOOSE k \in 1..Len(s) :
             s[k] = c /\ \A j \in (k + 1)..Len(s) : s[j] # c
      ELSE 0

\* The argv exec_with_namespace builds (exec.cpp:43-59).
BuildArgv(devname, namespace_argv, cmd_argv, env) ==
    << HelperPath >> \o cmd_argv \o << DashDash >> \o << devname >>
       \o namespace_argv \o << DashDash >> \o env

\* argv[k] of the C program.
Arg(av, k) == av[k + 1]

\* Where a loop `while (i > 0 && strcmp(argv[i], "--") != 0) ... i--` that
\* starts at i = from stops.
StopsAt(av, from) ==
    IF from <= 0 THEN from
    ELSE IF \E k \in 1..from : Arg(av, k) = DashDash
      THEN CHOOSE k \in 1..from :
             Arg(av, k) = DashDash
             /\ \A j \in (k + 1)..from : Arg(av, j) # DashDash
      ELSE 0

\* argv[from..to] as a list.
Args(av, from, to) == [k \in 1..(to - from + 1) |-> Arg(av, from + k - 1)]

\* The command line split at its first "--" and at the next one.
ScanForward(av) ==
    LET argc == Len(av)
        dashes == { k \in 1..(argc - 1) : Arg(av, k) = DashDash }
        d1 == IF dashes = {} THEN argc
              ELSE CHOOSE k \in dashes : \A j \in dashes : k <= j
        later == { k \in dashes : k > d1 }
        d2 == IF later = {} THEN argc
              ELSE CHOOSE k \in later : \A j \in later : k <= j
    IN  [env_args |-> Args(av, d2 + 1, argc - 1),
         ns_args |-> Args(av, d1 + 1, d2 - 1),
         exec_args |-> Args(av, 1, d1 - 1)]

\* The backward scan of main (exec_with_namespace.cpp:119-130).
Scan(av) ==
    LET argc == Len(av)
        i1 == StopsAt(av, argc - 1)
        i2 == StopsAt(av, i1 - 1)
    IN  [env_args |-> Args(av, i1 + 1, argc - 1),
         ns_args |-> Args(av, i2 + 1, i1 - 1),
         exec_args |-> Args(av, 1, i2 - 1)]

\* The CHECK of exec_with_namespace.cpp:68: an '=' with a character after it.
WellFormed(target_source) ==
    LET equal_index == Find(target_source, "=")
    IN  equal_index # 0 /\ equal_index < Len(target_source)

\* exec_with_namespace.cpp:70-71
TargetOf(target_source) ==
    SubSeq(target_source, 1, Find(target_source, "=") - 1)

\* The source with the '=' left in front of it.
SourceWithEq(target_source) ==
    SubSeq(target_source, Find(target_source, "="), Len(target_source))

SourceOf(target_source) ==
    SubSeq(target_source, Find(target_source, "=") + 1, Len(target_source))

\* exec_with_namespace.cpp:74
MountPath(target) == WITH_MOUNTPOINT \o << "/" >> \o target

\* The path up to its last '/' (exec_with_namespace.cpp:49 and :78).
DirOf(path) == SubSeq(path, 1, RFind(path, "/") - 1)

\* An empty directory at the mount point, on the filesystem fs.  dirs are
\* its directories, links its symlinks in the order of their creation, ns
\* and env the contents of .ns and .env, << >> for a file that is absent.
EmptyTree(fs) == [fs |-> fs, dirs |-> { WITH_MOUNTPOINT }, links |-> << >>,
                  ns |-> << >>, env |-> << >>]

\* The paths that exist in tree t.
Paths(t) ==
    t.dirs \cup { t.links[k].at : k \in 1..Len(t.links) }
       \cup (IF t.ns = << >> THEN {} ELSE { MountPath(<< ".", "n", "s" >>) })
       \cup (IF t.env = << >> THEN {} ELSE { MountPath(<< ".", "e", "n", "v" >>) })

\* mkdir(dir): EEXIST for a path that exists, ENOENT when the parent
\* directory is missing, and EACCES stands for any other refusal.
Mkdir(t, dir, refused) ==
    IF dir \in Paths(t) THEN [tree |-> t, ret |-> -1, errno |-> "EEXIST"]
    ELSE IF DirOf(dir) \notin t.dirs
      THEN [tree |-> t, ret |-> -1, errno |-> "ENOENT"]
    ELSE IF refused THEN [tree |-> t, ret |-> -1, errno |-> "EACCES"]
    ELSE [tree |-> [t EXCEPT !.dirs = @ \cup { dir }], ret |-> 0,
          errno |-> "none"]

\* mkdir_p (exec_with_namespace.cpp:35-56)
RECURSIVE mkdir_p(_, _, _)
mkdir_p(t, dir, refused) ==
    LET r == Mkdir(t, dir, refused)
    IN  IF r.ret < 0 /\ r.errno = "ENOENT" /\ RFind(dir, "/") # 0
          THEN Mkdir(mkdir_p(t, DirOf(dir), refused).tree, dir, refused)
          ELSE r

\* symlink(source, mount_path)
Symlink(t, source, mount_path, refused) ==
    IF mount_path \in Paths(t) \/ DirOf(mount_path) \notin t.dirs \/ refused
      THEN [tree |-> t, ret |-> -1]
      ELSE [tree |-> [t EXCEPT !.links = Append(@, [at |-> mount_path,
                                                   to |-> source])],
            ret |-> 0]

\* What a loop of fprintf(fd, "%s<end>", *it) over list writes.
RECURSIVE Fprintf(_, _)
Fprintf(list, end) ==
    IF list = << >> THEN << >>
    ELSE Head(list) \o << end >> \o Fprintf(Tail(list), end)

\* The name of an environment entry: what precedes its '='.
NameOf(s) == IF Find(s, "=") = 0 THEN s ELSE SubSeq(s, 1, Find(s, "=") - 1)

\* putenv(s): an entry of the same name is replaced where it stands; a string
\* without '=' removes the name from the environment.
putenv(env, s) ==
    LET same == { k \in 1..Len(env) : NameOf(env[k]) = NameOf(s) }
    IN  IF Find(s, "=") = 0
          THEN SelectSeq(env, LAMBDA e : NameOf(e) # s)
        ELSE IF same = {} THEN Append(env, s)
        ELSE [k \in 1..Len(env) |-> IF k \in same THEN s ELSE env[k]]

\* clearenv() and the loop of exec_with_namespace.cpp:166-172.
RECURSIVE PutAll(_, _)
PutAll(env, list) ==
    IF list = << >> THEN env ELSE PutAll(putenv(env, Head(list)), Tail(list))

InstallEnv(env, list) == PutAll(<< >>, list)

\* Only the effective id set.
seteuid(d) == [d EXCEPT !.euid = d.ruid]

\* setresuid(uid, uid, uid) and setresgid(gid, gid, gid) with the real ids.
setresuid(d) == [d EXCEPT !.euid = d.ruid, !.suid = d.ruid]
setresgid(d) == [d EXCEPT !.egid = d.rgid, !.sgid = d.rgid]

\* ----------------------------------------------- the setuid helper: its run

\* Tokens of the command lines explored.
Ls == << "l", "s" >>
MountName == << "n", "s" >>
PairA == << "a", "=", "x" >>
PairA2 == << "a", "=", "z" >>
PairDeep == << "d", "/", "e", "/", "b", "=", "y" >>
PairNoEq == << "a" >>
PairNoSrc == << "a", "=" >>
K1 == << "K", "=", "1" >>
K2 == << "K", "=", "2" >>
L3 == << "L", "=", "3" >>
Tz == << "T", "Z", "=", "U" >>

\* What exec_with_namespace() is called with, and the environ it finds.  The
\* command is never empty: execvp has no program to look for then.
Launches ==
    [devname : { MountName },
     namespace_argv : { << >>, << PairA >>, << PairA, PairDeep >>,
                        << PairDeep, PairA >>, << PairA, PairA2 >>,
                        << PairNoEq >>, << PairA, PairNoSrc >>,
                        << DashDash, PairA >> },
     cmd_argv : { << Ls >>, << Ls, DashDash, Ls >> },
     environ : { << >>, << K1 >>, << K1, L3 >>, << K1, K2 >> }]

\* Command lines the helper is given by callers other than the launcher.
DirectLines ==
    { << HelperPath >>,
      << HelperPath, Ls >>,
      << HelperPath, Ls, DashDash, DashDash, K1 >>,
      << HelperPath, Ls, DashDash, MountName, PairA, DashDash, K1 >>,
      << HelperPath, Ls, DashDash, MountName, PairA >>,
      << HelperPath, DashDash, MountName, DashDash, K1 >>,
      << HelperPath, InitD, MountName, PairA >>,
      << HelperPath, InitD, MountName, PairA, PairDeep >>,
      << HelperPath, InitD, PairA >> }

\* What the caller's namespace has at the mount point: nothing, or the tree
\* of the namespace it runs in.
Trees ==
    { EmptyTree("inherited"),
      [EmptyTree("inherited") EXCEPT
          !.links = << [at |-> MountPath(<< "o", "l", "d" >>), to |-> Ls] >>,
          !.ns = << Fprintf(<< << "o", "l", "d" >> >>, " ") >>,
          !.env = << Fprintf(<< Tz >>, "\n") >>] }

\* The ids of the caller, and those of the helper once execve has applied the
\* set-user-ID bit (and the set-group-ID bit, when sgid).
CallerIds == [ruid |-> "caller", euid |-> "caller", suid |-> "caller",
              rgid |-> "caller", egid |-> "caller", sgid |-> "caller"]

SetidIds(sgid) ==
    [CallerIds EXCEPT !.euid = "owner", !.suid = "owner",
                      !.egid = IF sgid THEN "owner" ELSE @,
                      !.sgid = IF sgid THEN "owner" ELSE @]

\* No supervisor runs beside the helper.
SupervisorIdle ==
    /\ pc = None
    /\ exc = NoFailure
    /\ swallowed = NoFailure
    /\ specs = << >>
    /\ fspec = << >>
    /\ lockFile = FALSE
    /\ procs = << >>
    /\ files = << >>
    /\ i = 0
    /\ pgid = 0
    /\ somethingleft = FALSE
    /\ sig = None
    /\ sigmask = {}
    /\ hup = "DFL"
    /\ caller = [mask |-> {}, hup |-> "DFL"]
    /\ oldset = {}
    /\ oldHUP = None
    /\ pending = {}
    /\ sigBudget = 0
    /\ child = [k \in 1..MaxProcs |-> NoChild]
    /\ errpipe = None
    /\ nextPid = FirstChildPid
    /\ forkLog = << >>
    /\ sent = {}
    /\ lockFd = FALSE
    /\ lockTry = None
    /\ other = NoLock.other
    /\ lockHolder = None
    /\ lockExists = NoLock.exists
    /\ lockData = NoLock.data
    /\ fds = {}
    /\ entry = None
    /\ input = << >>
    /\ fed = << >>
    /\ errOut = << >>
    /\ delivered = {}

supervisorVars_noFd ==
    << pc, exc, swallowed, specs, fspec, lockFile, procs, files, i, pgid,
       somethingleft, sig, sigmask, hup, oldset, oldHUP, caller, pending,
       sigBudget, child, errpipe, nextPid, forkLog, sent, lockFd, lockHolder,
       lockExists, lockData, lockTry, other, fds, entry, input, fed, errOut,
       delivered >>

supervisorVars ==
    << pc, exc, swallowed, specs, fspec, lockFile, procs, files, i, pgid,
       somethingleft, sig, sigmask, hup, oldset, oldHUP, caller, pending,
       sigBudget, child, errpipe, nextPid, forkLog, sent, lockFd, lockHolder,
       lockExists, lockData, lockTry, other, fds, entry, input, fed, errOut,
       delivered, fdVars >>

\* The launcher is about to build the helper's command line, or the helper
\* has just been exec'd with a command line of another origin.
HelperInit ==
    /\ SupervisorIdle
    /\ FdIdle
    /\ env_args = << >>
    /\ ns_args = << >>
    /\ exec_args = << >>
    /\ it = 0
    /\ diag = << >>
    /\ ret = << >>
    /\ trace = << >>
    /\ tree \in Trees
    /\ \/ /\ hpc = "launcher"
          /\ launch \in Launches
          /\ cmdline = << >>
          /\ environ = launch.environ
          /\ ids = CallerIds
       \/ /\ hpc = "main"
          /\ launch = NoLaunch
          /\ cmdline \in DirectLines
          /\ environ \in { << >>, << Tz >> }
          /\ \E sgid \in BOOLEAN : ids = SetidIds(sgid)

\* exec_with_namespace() (exec.cpp:33-69): the command line is built and the
\* helper is execve'd with an empty environment; execve of the set-user-ID
\* helper sets its effective and saved ids.  A failing execve throws.
Launch ==
    /\ hpc = "launcher"
    /\ cmdline' = BuildArgv(launch.devname, launch.namespace_argv,
                            launch.cmd_argv, environ)
    /\ \/ /\ hpc' = "main"
          /\ environ' = << >>
          /\ \E sgid \in BOOLEAN : ids' = SetidIds(sgid)
          /\ diag' = diag
       \/ /\ hpc' = "launch failed"
          /\ diag' = Append(diag, "execve failed")
          /\ UNCHANGED << environ, ids >>
    /\ UNCHANGED << launch, env_args, ns_args, exec_args, it, tree, ret,
                    trace, supervisorVars >>

\* The CHECK macro of exec_with_namespace.cpp:14-20, and usage(): a
\* diagnostic on stderr and `return 1`.
Leave(text) ==
    /\ diag' = Append(diag, text)
    /\ ret' = << 1 >>
    /\ hpc' = "exited"

\* main up to its first system call (exec_with_namespace.cpp:100-131).
HelperMain ==
    /\ hpc = "main"
    /\ LET argc == Len(cmdline)
       IN  IF argc <= 1
             THEN /\ Leave("usage")
                  /\ UNCHANGED << env_args, ns_args, exec_args, it >>
           ELSE IF Arg(cmdline, 1) = InitD
             THEN /\ ns_args' = Args(cmdline, 1, argc - 1)
                  /\ it' = 2
                  /\ hpc' = "links"
                  /\ UNCHANGED << env_args, exec_args, diag, ret >>
           ELSE LET p == Scan(cmdline)
                IN  /\ env_args' = p.env_args
                    /\ ns_args' = p.ns_args
                    /\ IF p.ns_args = << >>
                         THEN Leave("usage") /\ exec_args' = exec_args
                         ELSE /\ exec_args' = p.exec_args
                              /\ hpc' = "unshare"
                              /\ UNCHANGED << diag, ret >>
                    /\ it' = it
    /\ UNCHANGED << launch, cmdline, tree, ids, environ, trace,
                    supervisorVars >>

\* unshare(CLONE_NEWNS) (exec_with_namespace.cpp:134)
Unshare ==
    /\ hpc = "unshare"
    /\ \/ hpc' = "umount2" /\ trace' = Append(trace, "unshare")
                           /\ UNCHANGED << diag, ret >>
       \/ Leave("unshare failed") /\ trace' = trace
    /\ UNCHANGED << launch, cmdline, env_args, ns_args, exec_args, it, tree,
                    ids, environ, supervisorVars >>

\* umount2(WITH_MOUNTPOINT, MNT_DETACH) (exec_with_namespace.cpp:138-139):
\* what was mounted there is gone from this namespace.
Umount2 ==
    /\ hpc = "umount2"
    /\ \/ /\ hpc' = "mount"
          /\ tree' = EmptyTree("underlying")
          /\ trace' = Append(trace, "umount2")
          /\ UNCHANGED << diag, ret >>
       \/ Leave("umount2 failed") /\ UNCHANGED << tree, trace >>
    /\ UNCHANGED << launch, cmdline, env_args, ns_args, exec_args, it, ids,
                    environ, supervisorVars >>

\* mount(mount_name, "/with", "tmpfs", 0, NULL)
\* (exec_with_namespace.cpp:142-145); create_symlinks_and_metadata is next.
Mount ==
    /\ hpc = "mount"
    /\ \/ /\ hpc' = "links"
          /\ it' = 2
          /\ tree' = EmptyTree(Head(ns_args))
          /\ trace' = Append(trace, "mount")
          /\ UNCHANGED << diag, ret >>
       \/ Leave("mount failed") /\ UNCHANGED << tree, trace, it >>
    /\ UNCHANGED << launch, cmdline, env_args, ns_args, exec_args, ids,
                    environ, supervisorVars >>

\* One turn of the loop of create_symlinks_and_metadata
\* (exec_with_namespace.cpp:63-86), which starts at the second element of
\* ns_args.
LinkStep ==
    /\ hpc = "links"
    /\ IF it > Len(ns_args)
         THEN /\ hpc' = "ns"
              /\ UNCHANGED << it, tree, diag, ret, trace >>
         ELSE LET target_source == ns_args[it]
                  mount_path == MountPath(TargetOf(target_source))
              IN  IF ~WellFormed(target_source)
                    THEN /\ Leave("must be of the form target=src")
                         /\ UNCHANGED << it, tree, trace >>
                    ELSE \E norm \in BOOLEAN, nosym \in BOOLEAN :
                           LET made == mkdir_p(tree, DirOf(mount_path), norm)
                               link == Symlink(made.tree,
                                               SourceOf(target_source),
                                               mount_path, nosym)
                           IN  IF ~(made.ret >= 0 \/ made.errno = "EEXIST")
                                 THEN /\ Leave("create failed")
                                      /\ tree' = made.tree
                                      /\ UNCHANGED << it, trace >>
                               ELSE IF link.ret < 0
                                 THEN /\ Leave("symlink failed")
                                      /\ tree' = made.tree
                                      /\ UNCHANGED << it, trace >>
                               ELSE /\ tree' = link.tree
                                    /\ it' = it + 1
                                    /\ trace' = Append(trace, "symlink")
                                    /\ UNCHANGED << hpc, diag, ret >>
    /\ UNCHANGED << launch, cmdline, env_args, ns_args, exec_args, ids,
                    environ, supervisorVars >>

\* main was given "--init.d".
InitDMode == Len(cmdline) > 1 /\ Arg(cmdline, 1) = InitD

\* The metadata file of create_symlinks_and_metadata
\* (exec_with_namespace.cpp:89-95).  `fd >= 0` holds of the null pointer a
\* failing fopen returns, so the CHECK never fires; fprintf then reads the
\* FILE through the null pointer and the helper is killed by SIGSEGV.
WriteNs ==
    /\ hpc = "ns"
    /\ \/ /\ tree' = [tree EXCEPT !.ns = << Fprintf(ns_args, " ") >>]
          /\ trace' = Append(trace, ".ns")
          /\ IF InitDMode
               THEN ret' = << 0 >> /\ hpc' = "exited"
               ELSE ret' = ret /\ hpc' = "env"
       \/ /\ hpc' = "killed"
          /\ UNCHANGED << tree, trace, ret >>
    /\ UNCHANGED << launch, cmdline, env_args, ns_args, exec_args, it, ids,
                    environ, diag, supervisorVars >>

\* The environment metadata (exec_with_namespace.cpp:153-157), with the same
\* CHECK; with no entry to print it is fclose that reads the null pointer.
WriteEnv ==
    /\ hpc = "env"
    /\ \/ /\ tree' = [tree EXCEPT !.env = << Fprintf(env_args, "\n") >>]
          /\ trace' = Append(trace, ".env")
          /\ hpc' = "drop"
       \/ /\ hpc' = "killed"
          /\ UNCHANGED << tree, trace >>
    /\ UNCHANGED << launch, cmdline, env_args, ns_args, exec_args, it, ids,
                    environ, diag, ret, supervisorVars >>

\* The privilege drop (exec_with_namespace.cpp:160-162): setresuid, and
\* setresgid only if setresuid succeeded.
Drop ==
    /\ hpc = "drop"
    /\ \E r \in { "ok", "setresuid failed", "setresgid failed" } :
          /\ ids' = IF r = "ok" THEN setresgid(setresuid(ids))
                    ELSE IF r = "setresgid failed" THEN setresuid(ids)
                    ELSE ids
          /\ trace' = IF r = "ok" THEN trace \o << "setresuid", "setresgid" >>
                      ELSE IF r = "setresgid failed"
                        THEN Append(trace, "setresuid")
                      ELSE trace
          /\ IF r = "ok"
               THEN hpc' = "environ" /\ UNCHANGED << diag, ret >>
               ELSE Leave("setresuid/setresgid failed")
    /\ UNCHANGED << launch, cmdline, env_args, ns_args, exec_args, it, tree,
                    environ, supervisorVars >>

\* clearenv() and putenv of every env_args (exec_with_namespace.cpp:166-172)
Environ ==
    /\ hpc = "environ"
    /\ environ' = InstallEnv(environ, env_args)
    /\ trace' = Append(trace, "environ")
    /\ hpc' = "execvp"
    /\ UNCHANGED << launch, cmdline, env_args, ns_args, exec_args, it, tree,
                    ids, diag, ret, supervisorVars >>

\* execvp of the target command (exec_with_namespace.cpp:175-177).  With no
\* target command exec_args_as_array[0] is the NULL pushed at line 131, and
\* execvp(NULL, ...) either faults or fails: it never starts a program.
Execvp ==
    /\ hpc = "execvp"
    /\ \/ /\ exec_args # << >>
          /\ hpc' = "execd"
          /\ trace' = Append(trace, "execvp")
          /\ UNCHANGED << diag, ret >>
       \/ Leave("cannot exec") /\ trace' = trace
       \/ /\ exec_args = << >>
          /\ hpc' = "killed"
          /\ UNCHANGED << diag, ret, trace >>
    /\ UNCHANGED << launch, cmdline, env_args, ns_args, exec_args, it, tree,
                    ids, environ, supervisorVars >>

HelperNext ==
    \/ Launch
    \/ HelperMain
    \/ Unshare
    \/ Umount2
    \/ Mount
    \/ LinkStep
    \/ WriteNs
    \/ WriteEnv
    \/ Drop
    \/ Environ
    \/ Execvp

HelperSpec == HelperInit /\ [][HelperNext]_vars

\* --------------------------------------------------------------------- class FD

\* The descriptors the FD scenario hands out, and how often the scenario
\* lets close() be called on one descriptor.
MaxFds == 2
MaxCloses == 2

\* The two FD objects of the scenario.
Handles == { "a", "b" }

\* Two default-constructed FD objects (FD(int fd = -1)); no descriptor has
\* been handed out.
FdInit ==
    /\ SupervisorIdle
    /\ HelperIdle
    /\ handle = [h \in Handles |-> [m_fd |-> -1, alive |-> TRUE]]
    /\ closes = [d \in { -1 } \cup 1..MaxFds |-> 0]
    /\ owned = {}
    /\ nextFd = 1
    /\ surfaced = FALSE

\* FD::reset(newFD) on object h (pipe.cpp:53-58): an FD that holds a
\* descriptor closes it, and a failing close throws before m_fd is assigned.
\* thrown: the close fails.
Reset(h, newFD, thrown) ==
    /\ IF handle[h].m_fd # -1
         THEN /\ closes[handle[h].m_fd] < MaxCloses
              /\ closes' = [closes EXCEPT ![handle[h].m_fd] = @ + 1]
         ELSE /\ ~thrown
              /\ closes' = closes
    /\ owned' = IF thrown THEN owned ELSE owned \cup ({ newFD } \ { -1 })

\* h.reset(fd) called by the owner of h, with the result of an open, dup or
\* pipe, or with nothing (-1).
FdReset(h) ==
    /\ handle[h].alive
    /\ \E fresh \in BOOLEAN, thrown \in BOOLEAN :
          LET newFD == IF fresh THEN nextFd ELSE -1
          IN  /\ fresh => nextFd <= MaxFds
              /\ Reset(h, newFD, thrown)
              /\ handle' = IF thrown THEN handle
                           ELSE [handle EXCEPT ![h].m_fd = newFD]
              /\ nextFd' = IF fresh THEN nextFd + 1 ELSE nextFd
              /\ surfaced' = thrown
    /\ UNCHANGED << supervisorVars_noFd, helperVars >>

\* dst.move_from(src) (pipe.hpp:28): reset(src.m_fd), then src gives it up.
FdMoveFrom(dst, src) ==
    /\ dst # src
    /\ handle[dst].alive /\ handle[src].alive
    /\ \E thrown \in BOOLEAN :
          /\ Reset(dst, handle[src].m_fd, thrown)
          /\ handle' = IF thrown THEN handle
                       ELSE [handle EXCEPT ![dst].m_fd = handle[src].m_fd,
                                           ![src].m_fd = -1]
          /\ surfaced' = thrown
    /\ nextFd' = nextFd
    /\ UNCHANGED << supervisorVars_noFd, helperVars >>

\* FD::~FD (pipe.cpp:46-51): reset() with whatever it throws caught.
FdDtor(h) ==
    /\ handle[h].alive
    /\ \E thrown \in BOOLEAN :
          /\ Reset(h, -1, thrown)
          /\ handle' = [handle EXCEPT ![h].alive = FALSE,
                                      ![h].m_fd = IF thrown THEN @ ELSE -1]
    /\ surfaced' = FALSE
    /\ nextFd' = nextFd
    /\ UNCHANGED << supervisorVars_noFd, helperVars >>

FdNext ==
    \/ \E h \in Handles : FdReset(h)
    \/ \E dst \in Handles, src \in Handles : FdMoveFrom(dst, src)
    \/ \E h \in Handles : FdDtor(h)

FdSpec == FdInit /\ [][FdNext]_vars

\* ------------------------------------------------------------------ properties

\* The wait status of Proc k's child is stored in its daemon_proc_spec.
Harvested(k) ==
    /\ specs[k].m_exited
    /\ child[k].st = "reaped"
    /\ specs[k].m_status = child[k].status

\* C1: after exec() returns normally, every daemon_proc_spec of the pipeline
\* is started and finished with the wait status of its child stored, whatever
\* the waitpid, sigwait and kill calls of the harvest returned.
C1_ReturnedAllFinished ==
    pc = "returned" =>
        \A k \in 1..Len(specs) :
            started(specs[k]) /\ finished(specs[k]) /\ Harvested(k)

\* The supervisor is inside ProcHarvester::harvest.
InHarvest == pc \in { "scan", "sigwait", "dispatch" }

C3_ForwardedToAll ==
    (pc \in { "scan", "t_lock" } /\ sent # {}) =>
        \E s \in { "TERM", "INT", "QUIT" } :
            /\ \A e \in sent : e.sig = s /\ e.pid = specs[e.proc].m_pid
                                /\ child[e.proc].st # "reaped"
            /\ { e.proc : e \in sent } =
                  { k \in 1..Len(specs) :
                       /\ specs[k].m_pid # -1
                       /\ ~specs[k].m_exited
                       /\ specs[k].m_forwardSignals }

\* C4: when exec() finds the flock of its lock file held by another
\* supervisor it fails with "process is already running", has forked no child
\* and opened no File, and the holder's pid line stays in the file while the
\* holder holds the lock, through the teardown of the failed exec(); never do
\* this supervisor and the other both have the lock.
C4_LockCollision ==
    /\ ~(lockFd /\ other = "holding")
    /\ lockTry = "EWOULDBLOCK" =>
          /\ exc = [kind |-> "process is already running",
                    text |-> << "process is already running" >>]
          /\ pc # "returned"
          /\ forkLog = << >>
          /\ \A k \in 1..MaxProcs : child[k].st = "none"
          /\ \A j \in 1..Len(files) :
                files[j].m_readSide = 0 /\ files[j].m_writeSide = 0
          /\ other = "holding" =>
                lockExists /\ lockData = Append(Decimal(OtherPid), "\n")

\* C4's case: the failed exec() has torn down while the other still holds.
C4_CollisionRaised ==
    lockTry = "EWOULDBLOCK" /\ pc = "raised" /\ other = "holding"

C6_ExecFailure ==
    \A k \in 1..MaxProcs :
        child[k].err # None =>
            /\ pc # "returned"
            /\ pc # "read" =>
                  /\ exc.kind = "child"
                  /\ \A t \in What(exc) : Len(t) >= 1 /\ t[1] = child[k].err
            /\ pc = "reap" =>
                  sent = { [proc |-> k, pid |-> child[k].pid, sig |-> "TERM",
                            ok |-> TRUE] }
            /\ pc \notin { "read", "reap" } => child[k].st = "reaped"
            /\ specs[k].m_pid = -1
            /\ \A j \in (k + 1)..MaxProcs : child[j].st = "none"
            /\ forkLog[Len(forkLog)] = k

\* C6's case: execvp failed in the second child and exec() has raised.
C6_SecondExecFailed ==
    pc = "raised" /\ child[2].err = "execvp failed" /\ child[1].execd

\* C7: when a failing child aborts exec(), every sibling forked before it has
\* been reaped by ~ProcHarvester when exec() hands the failure to its caller:
\* no child of this exec() is left running or a zombie.
C7_SiblingsReaped ==
    (pc = "raised" /\ exc.kind = "child") =>
        \A k \in 1..MaxProcs : child[k].st \in { "none", "reaped" }

\* C8: when exec() returns normally, the signal mask and the SIGHUP
\* disposition of the process are what they were when exec() was called.
C8_SignalsRestored ==
    pc = "returned" => sigmask = caller.mask /\ hup = caller.hup

\* C8's case: a caller that blocks SIGTERM and has SIGHUP at its default.
C8_ReturnedToBlockingCaller ==
    pc = "returned" /\ caller.mask = {"TERM"} /\ caller.hup = "DFL"

\* C9: the Procs are forked in declaration order, the next only after
\* safe_fork_exec has recorded the pid of the one before it; a child that has
\* exec'd is in the process group whose id is the pid of the first child
\* forked, the first child included.
C9_ForkOrderAndGroup ==
    /\ forkLog = [k \in 1..Len(forkLog) |-> k]
    /\ \A k \in 1..MaxProcs :
          /\ child[k].st = "forked" => pc = "read" /\ k = Len(forkLog)
          /\ (child[k].st # "none" /\ k < Len(forkLog)) =>
                specs[k].m_pid = child[k].pid
          /\ child[k].execd =>
                /\ child[k].pgid = child[1].pid
                /\ child[k].pid = FirstChildPid + (k - 1)

\* C9's case: the second child has exec'd in the group of the first.
C9_SecondJoined ==
    child[1].execd /\ child[2].execd /\ child[2].pgid = child[1].pid

\* The file_specs the daemon_proc_specs refer to.
Referenced ==
    { specs[k].m_stdin : k \in 1..Len(specs) }
        \cup { specs[k].m_stdout : k \in 1..Len(specs) }
        \cup { specs[k].m_stderr : k \in 1..Len(specs) }

\* C10: once exec() has wired its Procs, FileMap holds one File for each
\* file_spec referred to, two file_specs of one path having a File each; a
\* Proc's m_stdin, m_stdout and m_stderr are the Files of the file_specs its
\* daemon_proc_spec names; a File's m_wantRead is set iff some m_stdin refers
\* to its file_spec and its m_wantWrite iff some m_stdout or m_stderr does.
C10_FileMapByIdentity ==
    pc \in { "lock", "open", "fork", "read", "reap", "t_files" } =>
        /\ { files[j].m_spec : j \in 1..Len(files) } = Referenced \ {0}
        /\ Len(files) = Cardinality(Referenced \ {0})
        /\ \A j \in 1..Len(files) :
              /\ files[j].m_wantRead <=>
                    \E k \in 1..Len(specs) : specs[k].m_stdin = files[j].m_spec
              /\ files[j].m_wantWrite <=>
                    \E k \in 1..Len(specs) :
                        \/ specs[k].m_stdout = files[j].m_spec
                        \/ specs[k].m_stderr = files[j].m_spec
        /\ \A k \in 1..Len(procs) :
              /\ IF specs[k].m_stdin = 0 THEN procs[k].m_stdin = 0
                 ELSE files[procs[k].m_stdin].m_spec = specs[k].m_stdin
              /\ IF specs[k].m_stdout = 0 THEN procs[k].m_stdout = 0
                 ELSE files[procs[k].m_stdout].m_spec = specs[k].m_stdout
              /\ IF specs[k].m_stderr = 0 THEN procs[k].m_stderr = 0
                 ELSE files[procs[k].m_stderr].m_spec = specs[k].m_stderr

\* C11: from the moment ~ProcHarvester starts to wait for the children until
\* exec() has returned or raised, on every path, the supervisor holds no
\* descriptor of a File open.
C11_FilesClosedBeforeHarvest ==
    pc \in { "scan", "sigwait", "dispatch", "t_lock", "t_signals", "returned",
             "raised" } => fds = {}

\* C11's case: the supervisor waits in sigwait for a child that reads a pipe
\* the supervisor opened.
C11_WaitingForPipeReader ==
    /\ pc = "sigwait"
    /\ child[2].st = "running"
    /\ procs[2].m_stdin # 0
    /\ fspec[specs[2].m_stdin].m_filename = ""

\* C10's case: stdout and stderr on two file_specs of one path.
C10_TwoSpecsOnePath ==
    /\ pc = "fork"
    /\ \E a, b \in 1..Len(files) :
          /\ a # b
          /\ fspec[files[a].m_spec].m_filename = fspec[files[b].m_spec].m_filename

\* C19: of every daemon_proc_spec, always: m_exited implies started, finished
\* implies started, and exactly one of unstarted, running, finished holds; it
\* changes only from unstarted to running when safe_fork_exec records the pid
\* of a child that has exec'd, from running to finished when harvest() stores
\* the status of that child, and to unstarted by the resetStatus of addProc;
\* when the first fork of a run is made every spec is unstarted.
C19_Lifecycle ==
    /\ [](\A k \in 1..Len(specs) :
            LET s == specs[k]
                un == ~started(s)
            IN  /\ s.m_exited => started(s)
                /\ finished(s) => started(s)
                /\ (un /\ ~running(s) /\ ~finished(s))
                      \/ (~un /\ running(s) /\ ~finished(s))
                      \/ (~un /\ ~running(s) /\ finished(s))
                /\ (forkLog = << >> /\ pc \in { "lock", "open", "fork" }) =>
                      un /\ ~s.m_exited /\ s.m_status = 0)
    /\ [][\A k \in 1..Len(specs) :
            specs'[k] # specs[k] =>
               \/ /\ ~started(specs[k]) /\ running(specs'[k])
                  /\ pc = "read" /\ child[k].execd
                  /\ specs'[k].m_pid = child[k].pid
               \/ /\ running(specs[k]) /\ finished(specs'[k])
                  /\ pc = "scan" /\ child[k].st = "zombie"
                  /\ specs'[k].m_pid = specs[k].m_pid
                  /\ specs'[k].m_status = child[k].status
               \/ /\ pc = "wire" /\ forkLog = << >>
                  /\ ~started(specs'[k]) /\ ~specs'[k].m_exited]_vars

\* C19, its states alone: the three states exclude each other, and a spec that
\* is running or finished in this run belongs to a child that exec'd.
C19_LifecycleStates ==
    \A k \in 1..Len(specs) :
       LET s == specs[k]
           un == ~started(s)
       IN  /\ s.m_exited => started(s)
           /\ finished(s) => started(s)
           /\ (un /\ ~running(s) /\ ~finished(s))
                 \/ (~un /\ running(s) /\ ~finished(s))
                 \/ (~un /\ ~running(s) /\ finished(s))
           /\ (started(s) /\ child[k].st # "none") => child[k].execd

\* C19's case: both specs of a pipeline have gone from unstarted through
\* running to finished, the first one killed by a forwarded SIGTERM.
C19_BothFinished ==
    /\ pc = "returned" /\ Len(specs) = 2
    /\ finished(specs[1]) /\ finished(specs[2])
    /\ specs[1].m_status = SigNum("TERM")

\* C20: a kill that fails in the forwarding loop of harvest() reaches the
\* caller of exec() as a failure: exec() does not return normally and the
\* failure it raises is that of the kill.
C20_KillFailurePropagates ==
    (swallowed.kind = "kill failed" /\ pc \in { "returned", "raised" }) =>
        pc = "raised" /\ exc.kind = "kill failed"

\* try_error_write has come back to its caller.
TewDone == entry = "try_error_write" /\ pc \in { "returned", "raised" }

\* The child was launched, fed and exited with status 0.
TewClean ==
    /\ Len(specs) = 1
    /\ child[1].execd
    /\ fed # << >>
    /\ child[1].status = ExitStatus(0)

\* C12: when try_error_write is over no failure has reached the caller and
\* no child is left unreaped, and stderr has received the text, once, exactly
\* when some step failed or the child did not exit with status 0, and
\* nothing otherwise.
C12_ErrorWriteFallback ==
    TewDone =>
        /\ pc = "returned"
        /\ \A k \in 1..MaxProcs : child[k].st \in { "none", "reaped" }
        /\ errOut = IF TewClean THEN << >> ELSE input

\* The helper has exec'd the target command.
Execd == hpc = "execd"

C14_FailureDiagnosed ==
    (hpc \in { "exited", "killed" } /\ ~(InitDMode /\ ret = << 0 >>)) =>
        /\ diag # << >>
        /\ ret \notin { << >>, << 0 >> }

\* The text split into the tokens that each end with the character end.
RECURSIVE Split(_, _)
Split(text, end) ==
    IF text = << >> THEN << >>
    ELSE LET k == Find(text, end)
         IN  IF k = 0 THEN << text >>
             ELSE << SubSeq(text, 1, k - 1) >>
                     \o Split(SubSeq(text, k + 1, Len(text)), end)

\* The file exists and its text is the tokens of list, each followed by
\* one end.
Holds(file, list, end) ==
    /\ file # << >>
    /\ Split(file[1], end) = list
    /\ file[1] = << >> \/ file[1][Len(file[1])] = end

\* The directories above path, below the mount point or the mount point.
Above(path) ==
    { SubSeq(path, 1, k - 1) :
        k \in { j \in 1..Len(path) :
                  path[j] = "/" /\ j > Len(WITH_MOUNTPOINT) } }

\* C15: after a successful helper run the mount point holds, in input order,
\* one symlink target -> src per pair, below the directories above them and
\* nothing else but .ns, the namespace tokens each followed by a space, and
\* .env, the environment entries each on a line.
C15_SymlinkTree ==
    Execd =>
        LET pairs == Tail(ns_args)
        IN  /\ Len(tree.links) = Len(pairs)
            /\ \A k \in 1..Len(pairs) :
                  /\ tree.links[k].at
                       = WITH_MOUNTPOINT \o << "/" >>
                           \o SubSeq(pairs[k], 1, Find(pairs[k], "=") - 1)
                  /\ << "=" >> \o tree.links[k].to
                       = SubSeq(pairs[k], Find(pairs[k], "="), Len(pairs[k]))
            /\ tree.dirs = UNION { Above(tree.links[k].at) :
                                     k \in 1..Len(tree.links) }
                             \cup { WITH_MOUNTPOINT }
            /\ tree.fs = Head(ns_args)
            /\ Holds(tree.ns, ns_args, " ")
            /\ Holds(tree.env, env_args, "\n")

C15_DeepTreeBuilt ==
    /\ Execd
    /\ ns_args = << MountName, PairDeep, PairA >>
    /\ env_args = << K1, L3 >>
    /\ Cardinality(tree.dirs) = 3

\* No token of list is "--".
NoDashDash(list) == \A k \in 1..Len(list) : list[k] # DashDash

\* The positions of "--" among the arguments of command line av.
Dashes(av) == { k \in 2..Len(av) : av[k] = DashDash }

\* Command line av has no token between its last "--" and the "--" before
\* it, or the program name when there is none before it.
EmptyNamespaceSection(av) ==
    \/ Dashes(av) = {}
    \/ LET last == CHOOSE k \in Dashes(av) : \A j \in Dashes(av) : j <= k
       IN  last = 2 \/ (last - 1) \in Dashes(av)

\* C16: from the command line the launcher builds, with no "--" among
\* mount-name, namespace and environment entries, the helper's scan recovers
\* the environment, the namespace list with the mount-name first and the
\* command; a command line with an empty namespace section ends in the
\* usage message and exit code 1.
C16_LauncherRoundTrip ==
    /\ (/\ launch # NoLaunch
        /\ hpc \notin { "launcher", "launch failed", "main" }
        /\ NoDashDash(<< launch.devname >> \o launch.namespace_argv
                         \o launch.environ))
         => /\ env_args = launch.environ
            /\ ns_args = << launch.devname >> \o launch.namespace_argv
            /\ exec_args = launch.cmd_argv
    /\ (/\ hpc \notin { None, "launcher", "launch failed", "main" }
        /\ ~InitDMode
        /\ EmptyNamespaceSection(cmdline))
         => hpc = "exited" /\ ret = << 1 >> /\ diag = << "usage" >>

C16_CommandWithDashDash ==
    /\ hpc = "unshare"
    /\ launch # NoLaunch
    /\ launch.cmd_argv = << Ls, DashDash, Ls >>
    /\ launch.namespace_argv = << PairA, PairDeep >>
    /\ launch.environ = << K1, L3 >>
    /\ exec_args = << Ls, DashDash, Ls >>

\* C17: the environment of the exec'd command is, as a set, the list passed
\* after the last "--".
C17_EnvironmentRoundTrip ==
    Execd =>
        { environ[k] : k \in 1..Len(environ) }
          = { env_args[k] : k \in 1..Len(env_args) }

\* The command line is --init.d, a mount-name and well-formed pairs.
InitDLine ==
    /\ InitDMode
    /\ Len(cmdline) >= 3
    /\ Find(cmdline[3], "=") = 0
    /\ \A k \in 4..Len(cmdline) : WellFormed(cmdline[k])

\* C18: an --init.d run with a mount-name and well-formed pairs that no
\* system call fails in returns 0 with one symlink per pair and .ns written,
\* having done nothing else.
C18_InitDBuildsTree ==
    (InitDLine /\ hpc \in { "exited", "killed" }) =>
        \/ hpc = "killed"
        \/ diag \in { << "create failed" >>, << "symlink failed" >> }
        \/ /\ ret = << 0 >>
           /\ diag = << >>
           /\ Len(tree.links) = Len(cmdline) - 3
           /\ \A k \in 1..Len(tree.links) :
                 /\ tree.links[k].at = MountPath(TargetOf(cmdline[k + 3]))
                 /\ tree.links[k].to = SourceOf(cmdline[k + 3])
           /\ tree.ns # << >>
           /\ \A k \in 1..Len(trace) : trace[k] \in { "symlink", ".ns" }
           /\ ids = SetidIds(ids.egid = "owner")

\* The name File f was made for.
NameOf_File(f) == fspec[f.m_spec].m_filename

\* The Files that File::open has given a descriptor.
OpenedFiles ==
    { k \in 1..Len(files) : files[k].m_readSide > 0 \/ files[k].m_writeSide > 0 }

\* C22: a File opened on a path that is none of the special names has the
\* flags O_RDONLY when only read, O_CREAT|O_WRONLY, with O_APPEND if append,
\* when only written, and the access mode O_RDWR on one descriptor for both
\* sides when read and written; the side not asked for is absent.
C22_OpenFlags ==
    \A k \in OpenedFiles :
        LET f == files[k]
        IN  NameOf_File(f) \notin { "", "/dev/stdin", "/dev/stdout",
                                    "/dev/stderr" } =>
              /\ (f.m_wantRead /\ ~f.m_wantWrite) =>
                    f.mode = 0 /\ f.m_readSide > 0 /\ f.m_writeSide = 0
              /\ (~f.m_wantRead /\ f.m_wantWrite) =>
                    /\ f.mode = 64 + 1 + (IF f.m_append THEN 1024 ELSE 0)
                    /\ f.m_readSide = 0 /\ f.m_writeSide > 0
              /\ (f.m_wantRead /\ f.m_wantWrite) =>
                    /\ f.mode % 4 = 2
                    /\ f.m_readSide = f.m_writeSide

\* The name of file_spec e, "" for no file_spec.
Named(e) == IF e = 0 THEN "" ELSE fspec[e].m_filename

\* Some spec has the caller's stdin as an output or one of the caller's
\* outputs as its input.
Misused ==
    \E k \in 1..Len(specs) :
        \/ Named(specs[k].m_stdout) = "/dev/stdin"
        \/ Named(specs[k].m_stderr) = "/dev/stdin"
        \/ Named(specs[k].m_stdin) \in { "/dev/stdout", "/dev/stderr" }

\* C23: with a special file used the wrong way round exec() forks no child
\* and ends by raising a failure; otherwise an opened /dev/stdin has only a
\* read side, a dup of descriptor 0, and an opened /dev/stdout or /dev/stderr
\* only a write side, a dup of descriptor 1 or 2.
C23_CallerEndpoints ==
    /\ Misused =>
          /\ forkLog = << >>
          /\ pc \notin { "fork", "read", "reap", "returned" }
          /\ pc = "raised" =>
                exc.kind \in { "caller_stdin cannot be used for writing",
                               "caller_stdout cannot be used for reading",
                               "sigaction failed", "sigprocmask failed" }
    /\ ~Misused =>
          \A k \in OpenedFiles :
              LET f == files[k]
              IN  /\ NameOf_File(f) = "/dev/stdin" =>
                        f.m_readSide > 0 /\ f.m_writeSide = 0 /\ f.dup = 0
                  /\ NameOf_File(f) = "/dev/stdout" =>
                        f.m_writeSide > 0 /\ f.m_readSide = 0 /\ f.dup = 1
                  /\ NameOf_File(f) = "/dev/stderr" =>
                        f.m_writeSide > 0 /\ f.m_readSide = 0 /\ f.dup = 2

C23_StdinAsOutputRaised ==
    /\ pc = "raised"
    /\ exc.kind = "caller_stdin cannot be used for writing"
    /\ Named(specs[1].m_stdout) = "/dev/stdin"
    /\ forkLog = << >>

\* C24: once the lock this run of exec() took has been released no child of
\* the run is still running, and while the lock descriptor is open the six
\* signals are still blocked: ~LockFile comes after the harvest and before
\* ~SignalBlocker.
C24_TeardownOrder ==
    /\ (lockTry = "ok" /\ ~lockFd) =>
          \A k \in 1..MaxProcs : child[k].st \notin { "forked", "running" }
    /\ lockFd => Gated \subseteq sigmask
    /\ pc \in { "returned", "raised" } => ~lockFd

\* Descriptor d is held by an FD object that has not been destroyed.
Held(d) == \E h \in Handles : handle[h].alive /\ handle[h].m_fd = d

\* C25: over any sequence of reset, move_from and destruction, close is
\* called at most once on a descriptor, exactly once on every descriptor an
\* FD object has owned and no longer holds, and never on -1; a close error
\* inside an explicit reset or move_from reaches the caller.
C25_CloseOnce ==
    /\ closes[-1] = 0
    /\ \A d \in 1..MaxFds : closes[d] <= 1
    /\ \A d \in owned : ~Held(d) => closes[d] = 1
    /\ surfaced => \E d \in owned : closes[d] >= 1

\* The daemon_proc_specs that were added with no argument at all.
Bad == { k \in 1..Len(specs) : Len(specs[k].m_cmdArgv) = 0 }

\* C26: exec() on a pipeline with no daemon_proc_spec raises "no procs to
\* execute" with the signal mask, the SIGHUP disposition, the lock file and
\* the FileMap as they were and nothing forked; a daemon_proc_spec with an
\* empty argv is never forked and keeps a pid that is no child's, and exec()
\* does not return normally.
C26_BadSpecRejected ==
    /\ (entry = "exec" /\ Len(specs) = 0 /\ pc # "start") =>
          /\ pc = "raised"
          /\ exc.kind = "no procs to execute"
          /\ sigmask = caller.mask /\ hup = caller.hup
          /\ lockTry = "none" /\ ~lockFd
          /\ files = << >> /\ fds = {}
          /\ forkLog = << >>
    /\ \A k \in Bad :
          /\ \A n \in 1..Len(forkLog) : forkLog[n] # k
          /\ child[k].st = "none"
          /\ specs[k].m_pid < FirstChildPid
          /\ pc # "returned"

\* The second process of a pipeline has an empty argv: the first one was
\* forked, the second was not, and exec() raised "cmd_argv is empty".
C26_SecondSpecBad ==
    /\ pc = "raised"
    /\ exc.kind = "cmd_argv is empty"
    /\ Bad = { 2 }
    /\ forkLog = << 1 >>

\* The SignalBlocker of the running entry point has been constructed and not
\* yet destroyed.
GateUp == pc \notin { "start", "gate", "returned", "raised" }

\* C27: while the SignalBlocker lives the six signals are blocked, in exec()
\* and in try_error_write, and unless somebody outside sent it the supervisor
\* of try_error_write is never delivered a SIGPIPE: writing to the pipe of a
\* dead child cannot terminate it.
C27_NoSigpipe ==
    /\ GateUp => Gated \subseteq sigmask
    /\ (entry = "try_error_write" /\ sigBudget = MaxSignals) =>
          "PIPE" \notin delivered

\* The child of Proc k leaves the code between fork() and execvp in this step.
LeavesPreExec(k) == child[k].st = "forked" /\ child'[k].st # "forked"

\* C28: a child that has exec'd its program runs it with the signal mask the
\* caller had before exec() and with SIGHUP ignored, and the step in which a
\* child unblocks and execs (or fails) leaves the supervisor's mask alone,
\* with the six signals blocked.
C28_ChildSignals ==
    /\ [](\A k \in 1..MaxProcs :
            child[k].execd =>
               child[k].mask = caller.mask /\ child[k].hup = "IGN")
    /\ [][\A k \in 1..MaxProcs :
            LeavesPreExec(k) =>
               sigmask' = sigmask /\ Gated \subseteq sigmask]_vars

\* A child runs its program with TERM blocked, as the caller had it, while
\* the supervisor still blocks all six signals.
C28_ChildHasCallerMask ==
    \E k \in 1..MaxProcs :
       /\ child[k].execd
       /\ child[k].st = "running"
       /\ caller.mask = { "TERM" }
       /\ child[k].mask = { "TERM" }
       /\ Gated \subseteq sigmask

\* main parsed a command line that is not an --init.d one.
Parsed == hpc \notin { "launcher", "launch failed", "main" }
          /\ Len(cmdline) > 1 /\ Arg(cmdline, 1) # InitD

\* C29: when the command line the helper parsed has no target command, the
\* helper has neither unshared, unmounted, mounted nor changed anything
\* else, it does not get as far as execvp, and it ends with a non-zero exit
\* code.
C29_NoTargetNoPrivilege ==
    (Parsed /\ exec_args = << >>) =>
        /\ trace = << >>
        /\ hpc \notin { "execvp", "execd", "killed" }
        /\ hpc = "exited" => ret # << >> /\ ret # << 0 >>

\* C21: safe_fork_exec has recorded the pid of a child exactly when that
\* child exec'd its program, and a child that failed before exec has its
\* text read by the parent as a failure.
C21_EofMeansExecd ==
    \A k \in 1..MaxProcs :
       /\ (k <= Len(specs) /\ child[k].st # "none"
             /\ specs[k].m_pid = child[k].pid) => child[k].execd
       /\ (child[k].execd /\ (pc # "read" \/ i # k)) =>
             specs[k].m_pid = child[k].pid
       /\ (child[k].err # None /\ (pc # "read" \/ i # k)) =>
             /\ specs[k].m_pid # child[k].pid
             /\ exc # NoFailure \/ pc \in { "returned", "raised" }

====
